---------------------------- MODULE Spec2Model ----------------------------
(***************************************************************************)
(* ComfyUI-RAWpy: the RAW loading nodes (nodes.py), the rawpy adapter      *)
(* process_raw (raw_processing.py) and the ExifTool thumbnail extractor    *)
(* (thumbnail_extraction.py), as one state machine per invocation.         *)
(*                                                                         *)
(* Conventions of the encoding                                             *)
(*   - Python's None is the empty tuple, a present value x is <<x>>.       *)
(*   - Multipliers (white balance, noise threshold) are counted in          *)
(*     thousandths: 1500 stands for 1.5.                                   *)
(*   - A pixel buffer is [shape, px]: an array of the given shape whose    *)
(*     pixels all equal px (np.full / Image.new buffers, as in the tests). *)
(*   - A normalised sample is the reduced fraction <<num, den>>.           *)
(*   - The decode library (rawpy), PIL and the exiftool subprocess are the *)
(*     environment: each call picks one of the outcomes they can produce.  *)
(***************************************************************************)
EXTENDS Integers, Sequences, FiniteSets, TLC

VARIABLES
    pc,               \* position of the invocation
    caller,           \* "simple" | "advanced" | "direct" (process_raw called directly)
    inputs,           \* the arguments the caller was given
    image_path,       \* Some(path) once resolved
    kw,               \* the keyword arguments process_raw received (defaults filled in)
    pp_args,          \* Some(dict) once built: the arguments forwarded to postprocess
    handle,           \* "none" | "open" | "closed": the rawpy context
    rgb,              \* Some(buffer) returned by postprocess
    thumb,            \* what extract_thumb left in `thumb` (None or Some(thumbnail object))
    thumb_array,      \* Some(array) after the thumbnail conversion
    pr_result,        \* Some(<<image_tensor, thumb_tensor>>) once process_raw returned
    available,        \* Some(BOOLEAN): result of is_exiftool_available
    thumb_bytes,      \* Some(bytes) / None: result of extract_thumbnail_exiftool
    thumbnail_tensor, \* Some(tensor) / None
    exc,              \* Some(e): the exception a node's except clause caught
    output,           \* Some(<<image, preview, thumbnail>>): the NodeOutput
    raised,           \* Some(exception) that left the invocation
    calls,            \* how often each library or subprocess call was made
    tool,             \* how each subprocess.run of exiftool ended (None: not run)
    tables,           \* the module-level option tables of raw_processing.py
    earlier,          \* how the earlier invocations in this interpreter ended
    exits,            \* how often the rawpy context (the with block) was left
    \* extract_all_thumbnails (thumbnail_extraction.py:78-104)
    tag_runs,         \* the subprocess runs made so far, in order
    tag_bytes,        \* what extract_thumbnail_exiftool returned for each tag so far
    tag_tensors,      \* the locals thumbnail, preview, jpg_from_raw
    all_result,       \* Some(triple) once extract_all_thumbnails returned
    \* run_tests.py
    external,         \* "absent" | "listening" | "stopped": a server nobody here started
    server,           \* "none" | "starting" | "listening" | "terminated": the spawned one
    server_process,   \* the global _server_process: None or Some(handle)
    atexit_registered,\* stop_comfyui_server registered with atexit
    polls,            \* the readiness polls made without success
    terminations,     \* how often the spawned server was sent its termination
    exit_code         \* None while running, Some(status) once the runner ended

vars == <<pc, caller, inputs, image_path, kw, pp_args, handle, rgb, thumb,
          thumb_array, pr_result, available, thumb_bytes, thumbnail_tensor,
          exc, output, raised, calls, tool, tables, earlier, exits,
          tag_runs, tag_bytes, tag_tensors, all_result,
          external, server, server_process, atexit_registered, polls,
          terminations, exit_code>>

\* the state of extract_all_thumbnails and of the test runner
thumbvars == <<tag_runs, tag_bytes, tag_tensors, all_result>>
runnervars == <<external, server, server_process, atexit_registered, polls,
                terminations, exit_code>>

None == <<>>
Some(x) == <<x>>
Val(o) == o[1]

---------------------------------------------------------------------------
(* Bounds of the sampled inputs.                                           *)

\* the largest edge, in pixels, of a sampled embedded preview
MaxEdge == 5000
\* the largest noise threshold sampled (thousandths)
MaxThr == 10500
\* the number of invocations followed one after the other in one interpreter
MaxInvocations == 2

---------------------------------------------------------------------------
(* Option tables, raw_processing.py:11-51.  The rawpy enum members are     *)
(* kept symbolic.                                                          *)

HIGHLIGHT_MODES ==
    ("clip" :> "HighlightMode.Clip") @@ ("ignore" :> "HighlightMode.Ignore") @@
    ("blend" :> "HighlightMode.Blend") @@
    ("reconstruct" :> "HighlightMode.ReconstructDefault")

DEMOSAIC_ALGORITHMS ==
    ("AHD" :> "DemosaicAlgorithm.AHD") @@ ("VNG" :> "DemosaicAlgorithm.VNG") @@
    ("PPG" :> "DemosaicAlgorithm.PPG") @@ ("DCB" :> "DemosaicAlgorithm.DCB") @@
    ("AMAZE" :> "DemosaicAlgorithm.AMAZE") @@
    ("LINEAR" :> "DemosaicAlgorithm.LINEAR") @@ ("DHT" :> "DemosaicAlgorithm.DHT")

OUTPUT_COLORSPACES ==
    ("sRGB" :> "ColorSpace.sRGB") @@ ("Adobe RGB" :> "ColorSpace.Adobe") @@
    ("ProPhoto" :> "ColorSpace.ProPhoto") @@ ("Wide Gamut" :> "ColorSpace.Wide") @@
    ("XYZ" :> "ColorSpace.XYZ") @@ ("ACES" :> "ColorSpace.ACES") @@
    ("Rec2020" :> "ColorSpace.Rec2020") @@ ("raw" :> "ColorSpace.raw")

ORIENTATION_MAP ==
    ("auto" :> None) @@ ("none" :> Some(0)) @@ ("180°" :> Some(3)) @@
    ("90° CW" :> Some(6)) @@ ("90° CCW" :> Some(5))

FBDD_MODES ==
    ("off" :> "FBDDNoiseReductionMode.Off") @@
    ("light" :> "FBDDNoiseReductionMode.Light") @@
    ("full" :> "FBDDNoiseReductionMode.Full")

\* raw_processing.py:11-51: the five dictionaries as the module holds them
MODULE_TABLES ==
    [ HIGHLIGHT_MODES |-> HIGHLIGHT_MODES,
      DEMOSAIC_ALGORITHMS |-> DEMOSAIC_ALGORITHMS,
      OUTPUT_COLORSPACES |-> OUTPUT_COLORSPACES,
      ORIENTATION_MAP |-> ORIENTATION_MAP,
      FBDD_MODES |-> FBDD_MODES ]

---------------------------------------------------------------------------
(* process_raw: signature defaults (raw_processing.py:54-73) and the       *)
(* arguments it builds for postprocess (raw_processing.py:80-116).         *)

PROCESS_RAW_DEFAULTS ==
    [ output_16bit |-> TRUE, white_balance |-> "camera",
      custom_wb |-> <<1000, 1000, 1000, 1000>>, demosaic_key |-> "AHD",
      orientation_key |-> "auto", use_auto_bright |-> TRUE,
      bright_adjustment |-> 1000, highlight_mode_key |-> "clip",
      colorspace_key |-> "sRGB", gamma |-> <<2222, 4500>>,
      exp_shift |-> 1000, exp_preserve_highlights |-> 0,
      chromatic_aberration |-> <<1000, 1000>>, noise_thr |-> None,
      fbdd_noise_reduction |-> "off", median_filter_passes |-> 0,
      half_size |-> FALSE ]

\* a lookup whose fallback is some other member of the table
DictGet_WrongDefault(table, key, default) ==
    IF key \in DOMAIN table THEN table[key]
    ELSE table[CHOOSE k \in DOMAIN table : table[k] # default]

\* a lookup that ignores the key
DictGet_AlwaysDefault(table, key, default) == default

\* raw_processing.py:85-100: TABLE.get(key, default), a lookup that cannot fail
DictGet(table, key, default) ==
    IF key \in DOMAIN table THEN table[key] ELSE default

EmptyDict == [x \in {} |-> TRUE]

\* "camera" not recognised: it falls through to the custom multipliers
WhiteBalanceArgs_CameraAsCustom(white_balance, custom_wb) ==
    IF white_balance = "auto" THEN ("use_auto_wb" :> TRUE)
    ELSE IF white_balance \in {"camera", "custom"} THEN ("user_wb" :> custom_wb)
    ELSE EmptyDict

\* the multipliers forwarded with blue and the second green exchanged
WhiteBalanceArgs_Reordered(white_balance, custom_wb) ==
    IF white_balance = "camera" THEN ("use_camera_wb" :> TRUE)
    ELSE IF white_balance = "auto" THEN ("use_auto_wb" :> TRUE)
    ELSE IF white_balance = "custom"
         THEN ("user_wb" :> <<custom_wb[1], custom_wb[2], custom_wb[4], custom_wb[3]>>)
    ELSE EmptyDict

\* raw_processing.py:109-116: the white-balance keys added to pp_args;
\* list(custom_wb) keeps the elements and their order
WhiteBalanceArgs(white_balance, custom_wb) ==
    IF white_balance = "camera" THEN ("use_camera_wb" :> TRUE)
    ELSE IF white_balance = "auto" THEN ("use_auto_wb" :> TRUE)
    ELSE IF white_balance = "custom" THEN ("user_wb" :> custom_wb)
    ELSE EmptyDict

\* raw_processing.py:80
Bps(output_16bit) == IF output_16bit THEN 16 ELSE 8

\* use_auto_bright handed on as no_auto_bright without the negation
PostprocessArgs_FlagNotNegated(t, k) ==
    [ output_bps |-> Bps(k.output_16bit),
      demosaic_algorithm |->
          DictGet(t.DEMOSAIC_ALGORITHMS, k.demosaic_key, "DemosaicAlgorithm.AHD"),
      bright |-> k.bright_adjustment,
      no_auto_bright |-> k.use_auto_bright,
      highlight_mode |->
          DictGet(t.HIGHLIGHT_MODES, k.highlight_mode_key, "HighlightMode.Clip"),
      user_flip |-> DictGet(t.ORIENTATION_MAP, k.orientation_key, None),
      output_color |->
          DictGet(t.OUTPUT_COLORSPACES, k.colorspace_key, "ColorSpace.sRGB"),
      gamma |-> k.gamma,
      chromatic_aberration |-> k.chromatic_aberration,
      noise_thr |-> k.noise_thr,
      fbdd_noise_reduction |->
          DictGet(t.FBDD_MODES, k.fbdd_noise_reduction, "FBDDNoiseReductionMode.Off"),
      median_filter_passes |-> k.median_filter_passes,
      half_size |-> k.half_size,
      exp_shift |-> k.exp_shift,
      exp_preserve_highlights |-> k.exp_preserve_highlights ]
    @@ WhiteBalanceArgs(k.white_balance, k.custom_wb)

\* raw_processing.py:83-116: pp_args as passed to raw.postprocess(**pp_args),
\* looked up in the module's tables t
PostprocessArgs(t, k) ==
    [ output_bps |-> Bps(k.output_16bit),
      demosaic_algorithm |->
          DictGet(t.DEMOSAIC_ALGORITHMS, k.demosaic_key, "DemosaicAlgorithm.AHD"),
      bright |-> k.bright_adjustment,
      no_auto_bright |-> ~k.use_auto_bright,
      highlight_mode |->
          DictGet(t.HIGHLIGHT_MODES, k.highlight_mode_key, "HighlightMode.Clip"),
      user_flip |-> DictGet(t.ORIENTATION_MAP, k.orientation_key, None),
      output_color |->
          DictGet(t.OUTPUT_COLORSPACES, k.colorspace_key, "ColorSpace.sRGB"),
      gamma |-> k.gamma,
      chromatic_aberration |-> k.chromatic_aberration,
      noise_thr |-> k.noise_thr,
      fbdd_noise_reduction |->
          DictGet(t.FBDD_MODES, k.fbdd_noise_reduction, "FBDDNoiseReductionMode.Off"),
      median_filter_passes |-> k.median_filter_passes,
      half_size |-> k.half_size,
      exp_shift |-> k.exp_shift,
      exp_preserve_highlights |-> k.exp_preserve_highlights ]
    @@ WhiteBalanceArgs(k.white_balance, k.custom_wb)

---------------------------------------------------------------------------
(* The node adapters' mapping of their inputs to process_raw's keywords.   *)

\* nodes.py:306-331: defaults of LoadRawImageAdvanced.execute
ADVANCED_DEFAULTS ==
    [ image |-> "photo.arw", output_16bit |-> TRUE, white_balance |-> "camera",
      custom_wb_r |-> 1000, custom_wb_g1 |-> 1000, custom_wb_b |-> 1000,
      custom_wb_g2 |-> 1000, highlight_mode |-> "clip",
      use_auto_bright |-> TRUE, bright_adjustment |-> 1000,
      demosaic_algorithm |-> "AHD", orientation |-> "auto",
      ca_red_scale |-> 1000, ca_blue_scale |-> 1000,
      output_colorspace |-> "sRGB", gamma_power |-> 2222, gamma_slope |-> 4500,
      exp_shift |-> 1000, exp_preserve_highlights |-> 0, noise_thr |-> 0,
      fbdd_noise_reduction |-> "off", median_filter_passes |-> 0,
      half_size |-> FALSE ]

\* nodes.py:77, 332: folder_paths.get_annotated_filepath(image), the host's
\* lookup of the absolute path of a file reference
AnnotatedFilepath(image) == "/input/" \o image

\* the threshold handed on as it is
NoiseThrArg_Unchanged(noise_thr) == Some(noise_thr)

\* nodes.py:349: noise_thr if noise_thr > 0 else None
NoiseThrArg(noise_thr) == IF noise_thr > 0 THEN Some(noise_thr) ELSE None

\* highlight_mode not handed on
SimpleKwargs_HighlightDropped(inp, path) ==
    [image_path |-> path] @@
    [PROCESS_RAW_DEFAULTS EXCEPT !.output_16bit = inp.output_16bit,
                                 !.white_balance = inp.white_balance]

\* nodes.py:80-85: the simple node passes three keywords, the rest default
SimpleKwargs(inp, path) ==
    [image_path |-> path] @@
    [PROCESS_RAW_DEFAULTS EXCEPT !.output_16bit = inp.output_16bit,
                                 !.white_balance = inp.white_balance,
                                 !.highlight_mode_key = inp.highlight_mode]

\* nodes.py:338: custom_wb=(custom_wb_r, custom_wb_g1, custom_wb_b, custom_wb_g2)
CustomWbTuple(inp) ==
    <<inp.custom_wb_r, inp.custom_wb_g1, inp.custom_wb_b, inp.custom_wb_g2>>

\* nodes.py:334-353: the advanced node passes every keyword
AdvancedKwargs(inp, path) ==
    [ image_path |-> path,
      output_16bit |-> inp.output_16bit,
      white_balance |-> inp.white_balance,
      custom_wb |-> CustomWbTuple(inp),
      demosaic_key |-> inp.demosaic_algorithm,
      orientation_key |-> inp.orientation,
      use_auto_bright |-> inp.use_auto_bright,
      bright_adjustment |-> inp.bright_adjustment,
      highlight_mode_key |-> inp.highlight_mode,
      colorspace_key |-> inp.output_colorspace,
      gamma |-> <<inp.gamma_power, inp.gamma_slope>>,
      exp_shift |-> inp.exp_shift,
      exp_preserve_highlights |-> inp.exp_preserve_highlights,
      chromatic_aberration |-> <<inp.ca_red_scale, inp.ca_blue_scale>>,
      noise_thr |-> NoiseThrArg(inp.noise_thr),
      fbdd_noise_reduction |-> inp.fbdd_noise_reduction,
      median_filter_passes |-> inp.median_filter_passes,
      half_size |-> inp.half_size ]

\* a direct call of process_raw: the given keywords over the signature defaults
DirectKwargs(inp) == inp

---------------------------------------------------------------------------
(* The sampled inputs.  A node receives the values its schema offers; a    *)
(* direct caller of process_raw may pass any key, also one no table holds. *)

UnknownKey == "bogus"

CustomWBs ==
    { <<1000, 1000, 1000, 1000>>, <<1500, 1000, 1200, 1000>>,
      <<1100, 1200, 1300, 1400>> }

\* nodes.py:55
SIMPLE_WHITE_BALANCE == {"camera", "auto", "daylight"}
\* nodes.py:145
ADVANCED_WHITE_BALANCE == {"camera", "auto", "daylight", "custom"}
\* any string may reach process_raw
DirectWhiteBalance == ADVANCED_WHITE_BALANCE \cup {"tungsten"}

SimpleInputs ==
    [ image : {"photo.arw"}, output_16bit : BOOLEAN,
      white_balance : SIMPLE_WHITE_BALANCE,
      highlight_mode : DOMAIN HIGHLIGHT_MODES ]

\* <<field of the advanced node, key>>: every key of every option table
AdvancedEnumChoices ==
    ({"demosaic_algorithm"} \X DOMAIN DEMOSAIC_ALGORITHMS) \cup
    ({"highlight_mode"} \X DOMAIN HIGHLIGHT_MODES) \cup
    ({"orientation"} \X DOMAIN ORIENTATION_MAP) \cup
    ({"output_colorspace"} \X DOMAIN OUTPUT_COLORSPACES) \cup
    ({"fbdd_noise_reduction"} \X DOMAIN FBDD_MODES)

AdvancedInputs ==
    LET wb == { [ADVANCED_DEFAULTS EXCEPT !.white_balance = w,
                     !.custom_wb_r = c[1], !.custom_wb_g1 = c[2],
                     !.custom_wb_b = c[3], !.custom_wb_g2 = c[4]] :
                  w \in ADVANCED_WHITE_BALANCE, c \in CustomWBs }
        enum == { [ADVANCED_DEFAULTS EXCEPT ![fk[1]] = fk[2]] :
                  fk \in AdvancedEnumChoices }
        noise == { [ADVANCED_DEFAULTS EXCEPT !.noise_thr = n] :
                  n \in {0, 5000, MaxThr} }
        numeric == { [ADVANCED_DEFAULTS EXCEPT !.use_auto_bright = FALSE,
                         !.bright_adjustment = 1500, !.ca_red_scale = 1010,
                         !.ca_blue_scale = 990, !.gamma_power = 1800,
                         !.gamma_slope = 3000, !.exp_shift = 2000,
                         !.exp_preserve_highlights = 500,
                         !.median_filter_passes = 2, !.half_size = TRUE] }
    IN  { [r EXCEPT !.output_16bit = b] :
            r \in wb \cup enum \cup noise \cup numeric, b \in BOOLEAN }

\* <<keyword of process_raw, key>>: every key of every table and an unknown one
DirectEnumChoices ==
    ({"demosaic_key"} \X (DOMAIN DEMOSAIC_ALGORITHMS \cup {UnknownKey})) \cup
    ({"highlight_mode_key"} \X (DOMAIN HIGHLIGHT_MODES \cup {UnknownKey})) \cup
    ({"orientation_key"} \X (DOMAIN ORIENTATION_MAP \cup {UnknownKey})) \cup
    ({"colorspace_key"} \X (DOMAIN OUTPUT_COLORSPACES \cup {UnknownKey})) \cup
    ({"fbdd_noise_reduction"} \X (DOMAIN FBDD_MODES \cup {UnknownKey}))

DirectInputs ==
    LET base == [image_path |-> "/input/photo.arw"] @@ PROCESS_RAW_DEFAULTS
        wb == { [base EXCEPT !.white_balance = w, !.custom_wb = c] :
                  w \in DirectWhiteBalance, c \in CustomWBs }
        enum == { [base EXCEPT ![fk[1]] = fk[2]] : fk \in DirectEnumChoices }
        noise == { [base EXCEPT !.noise_thr = n] :
                  n \in {None, Some(0), Some(5000), Some(MaxThr)} }
        unknown == { [base EXCEPT !.demosaic_key = UnknownKey,
                         !.highlight_mode_key = UnknownKey,
                         !.orientation_key = UnknownKey,
                         !.colorspace_key = UnknownKey,
                         !.fbdd_noise_reduction = UnknownKey] }
        numeric == { [base EXCEPT !.use_auto_bright = FALSE,
                         !.bright_adjustment = 1500,
                         !.chromatic_aberration = <<1010, 990>>,
                         !.gamma = <<1800, 3000>>, !.exp_shift = 2000,
                         !.exp_preserve_highlights = 500,
                         !.median_filter_passes = 2, !.half_size = TRUE] }
    IN  { [r EXCEPT !.output_16bit = b] :
            r \in wb \cup enum \cup noise \cup unknown \cup numeric,
            b \in BOOLEAN }

---------------------------------------------------------------------------
(* Arithmetic of the conversions.                                          *)

RECURSIVE Gcd(_, _)
Gcd(a, b) == IF b = 0 THEN a ELSE Gcd(b, a % b)

\* the value n / d as a reduced fraction
Frac(n, d) == LET g == Gcd(n, d) IN <<n \div g, d \div g>>

Max(a, b) == IF a >= b THEN a ELSE b

RECURSIVE Pow2(_)
Pow2(n) == IF n = 0 THEN 1 ELSE 2 * Pow2(n - 1)

\* 2^n modulo m
RECURSIVE Pow2Mod(_, _)
Pow2Mod(n, m) == IF n = 0 THEN 1 % m ELSE (2 * Pow2Mod(n - 1, m)) % m

\* the least k with 2^k >= n
RECURSIVE CeilLog2(_)
CeilLog2(n) == IF n <= 1 THEN 0 ELSE 1 + CeilLog2((n + 1) \div 2)

\* the greatest k with 2^k <= n, n >= 1
RECURSIVE FloorLog2(_)
FloorLog2(n) == IF n <= 1 THEN 0 ELSE 1 + FloorLog2(n \div 2)

\* raw_processing.py:157
MAX_PREVIEW_SIZE == 1024

\* raw_processing.py:168, 171: int(short * (MAX_PREVIEW_SIZE / long)) in IEEE
\* double arithmetic, long > MAX_PREVIEW_SIZE.  The quotient 1024/long is
\* rounded to 53 bits first: with N = 52 + ceil(log2 long) and
\* r = 2^N mod long it is rounded down exactly when 0 < 2r < long.  The
\* product differs from the exact value short*1024/long by far less than
\* 1/long, so int() truncates to the exact floor unless the exact value v is an
\* integer and the product rounds to the double below v, which is the case
\* when the quotient was rounded down and 2*v*r exceeds 2^(L+k) (2^(L+k-1)
\* for v = 2^k), k = floor(log2 v): then the result is v - 1.
ScaleEdge(short, long) ==
    LET v == (short * MAX_PREVIEW_SIZE) \div long
        L == CeilLog2(long)
        r == Pow2Mod(52 + L, long)
        k == FloorLog2(v)
        T == IF v = Pow2(k) THEN Pow2(L + k - 1) ELSE Pow2(L + k)
    IN  IF (short * MAX_PREVIEW_SIZE) % long # 0 \/ v = 0 THEN v
        ELSE IF r = 0 \/ 2 * r > long THEN v
        ELSE IF 2 * v * r <= T THEN v
        ELSE v - 1

---------------------------------------------------------------------------
(* PIL and numpy, as far as the code uses them.                            *)
(*   bytes : [kind |-> "jpeg", size |-> <<w, h>>, mode, px]                *)
(*           | [kind |-> "garbage"] | [kind |-> "empty"]                   *)
(*   image : [size |-> <<w, h>>, mode, px]      (PIL: width first)         *)
(*   array : [shape |-> <<h, w, 3>> or <<h, w>>, px]  (numpy: height first)*)

\* Image.open(io.BytesIO(data)): Some(image), or None when PIL raises
ImageOpen(data) ==
    IF data.kind = "jpeg"
    THEN Some([size |-> data.size, mode |-> data.mode, px |-> data.px])
    ELSE None

\* pil_image.convert("RGB"): a greyscale sample becomes three equal channels
ConvertRGB(img) ==
    IF img.mode = "L"
    THEN [img EXCEPT !.mode = "RGB", !.px = <<img.px[1], img.px[1], img.px[1]>>]
    ELSE img

\* the axes in PIL's order, width first
NpArray_WidthFirst(img) == [shape |-> <<img.size[1], img.size[2], 3>>, px |-> img.px]

\* np.array(pil_image) of an RGB image: shape (height, width, 3)
NpArray(img) == [shape |-> <<img.size[2], img.size[1], 3>>, px |-> img.px]

\* arr.astype(np.float32) / divisor
AsFloatDiv(arr, divisor) ==
    [arr EXCEPT !.px = [i \in DOMAIN arr.px |-> Frac(arr.px[i], divisor)]]

\* (arr * 255).astype(np.uint8): truncation; for a sample v/255 of an 8-bit
\* source the float32 product is v exactly
TimesAsUint8(arr) ==
    [arr EXCEPT !.px = [i \in DOMAIN arr.px |->
        ((arr.px[i][1] * 255) \div arr.px[i][2]) % 256]]

\* np.stack([a] * 3, axis=-1)
Stack3(arr) ==
    [shape |-> arr.shape \o <<3>>, px |-> <<arr.px[1], arr.px[1], arr.px[1]>>]

\* the array made a tensor without the batch axis
Unsqueeze0_Missing(arr) == arr

\* torch.from_numpy(a).unsqueeze(0)
Unsqueeze0(arr) == [arr EXCEPT !.shape = <<1>> \o arr.shape]

\* np.zeros((1, 1, 3), dtype=np.float32)
ZerosArray == [shape |-> <<1, 1, 3>>, px |-> <<<<0, 1>>, <<0, 1>>, <<0, 1>>>>]

\* torch.zeros((1, 1, 1, 3))
ZerosTensor == [shape |-> <<1, 1, 1, 3>>, px |-> <<<<0, 1>>, <<0, 1>>, <<0, 1>>>>]

---------------------------------------------------------------------------
(* The thumbnail steps of process_raw as functions of what rawpy returned. *)

\* only JPEG thumbnails converted: a BITMAP one is taken for an unknown format
ThumbToArray_JpegOnly(t) ==
    IF t = None THEN ZerosArray
    ELSE IF Val(t).format = "JPEG"
         THEN IF ImageOpen(Val(t).data) = None THEN ZerosArray
              ELSE AsFloatDiv(NpArray(ConvertRGB(Val(ImageOpen(Val(t).data)))), 255)
    ELSE ZerosArray

\* raw_processing.py:128-149: the embedded thumbnail as a float array; any
\* exception of the conversion is caught and gives the black pixel
ThumbToArray(t) ==
    IF t = None THEN ZerosArray
    ELSE IF Val(t).format = "JPEG"
         THEN IF ImageOpen(Val(t).data) = None THEN ZerosArray
              ELSE AsFloatDiv(NpArray(ConvertRGB(Val(ImageOpen(Val(t).data)))), 255)
    ELSE IF Val(t).format = "BITMAP" THEN AsFloatDiv(Val(t).data, 255)
    ELSE ZerosArray

\* the array handed on as it is, two-dimensional or not
EnsureChannels_Unchanged(arr) == arr

\* raw_processing.py:152-153
EnsureChannels(arr) == IF Len(arr.shape) = 2 THEN Stack3(arr) ELSE arr

\* raw_processing.py:166-171: <<new_w, new_h>> of an array of height h, width w
NewSize(h, w) ==
    IF w > h THEN <<MAX_PREVIEW_SIZE, ScaleEdge(h, w)>>
    ELSE <<ScaleEdge(w, h), MAX_PREVIEW_SIZE>>

\* the test made on the shorter edge
NeedsResize_ShortEdge(arr) ==
    (IF arr.shape[1] <= arr.shape[2] THEN arr.shape[1] ELSE arr.shape[2])
        > MAX_PREVIEW_SIZE

\* raw_processing.py:158-159
NeedsResize(arr) == Max(arr.shape[1], arr.shape[2]) > MAX_PREVIEW_SIZE

\* Image.resize raises ValueError unless both target dimensions are >= 1
ResizeRaises(arr) ==
    LET n == NewSize(arr.shape[1], arr.shape[2]) IN n[1] < 1 \/ n[2] < 1

\* raw_processing.py:163-174: LANCZOS resampling of a constant image keeps
\* its colour; the result is (new_h, new_w, 3), rescaled by 1/255
Resized(arr) ==
    LET n == NewSize(arr.shape[1], arr.shape[2])
    IN  AsFloatDiv([shape |-> <<n[2], n[1], 3>>, px |-> TimesAsUint8(arr).px], 255)

\* the 8-bit divisor whatever the depth
Divisor_Always255(output_16bit) == 255

\* raw_processing.py:180
Divisor(output_16bit) == IF output_16bit THEN 65535 ELSE 255

---------------------------------------------------------------------------
(* What the environment can answer.                                        *)

Exception(type, msg) == [type |-> type, msg |-> msg]

\* rawpy.imread failing: an unreadable or unsupported file
ImreadErrors ==
    { Exception("LibRawFileUnsupportedError", "Unsupported file format or not RAW file"),
      Exception("LibRawIOError", "Input/output error") }

\* raw.postprocess failing
PostprocessErrors == { Exception("LibRawDataError", "Data error or corrupted file") }

\* raw.extract_thumb failing
ExtractThumbErrors == { Exception("LibRawNoThumbnailError", "No thumbnail in file") }

\* the buffers postprocess returns for output_bps = bps: samples of that depth
RgbBuffers(bps) ==
    LET m == Pow2(bps) - 1
    IN  { [shape |-> <<100, 100, 3>>, px |-> p] :
            p \in { <<0, 0, 0>>, <<m, m, m>>, <<m \div 2, 100, 0>> } }

\* <<width, height>> of the sampled embedded previews
PreviewSizes ==
    { <<50, 30>>, <<1024, 768>>, <<1122, 1122>>, <<1500, 1000>>,
      <<4000, 3000>>, <<3000, 4000>>, <<1, MaxEdge>> }

JpegBytes(size, mode, px) == [kind |-> "jpeg", size |-> size, mode |-> mode, px |-> px]
GarbageBytes == [kind |-> "garbage"]
EmptyBytes == [kind |-> "empty"]

\* the thumbnail objects extract_thumb returns
Thumbs ==
    { [format |-> "JPEG", data |-> JpegBytes(sz, "RGB", <<254, 0, 0>>)] : sz \in PreviewSizes }
    \cup { [format |-> "JPEG", data |-> JpegBytes(sz, "L", <<128>>)] : sz \in PreviewSizes }
    \cup { [format |-> "JPEG", data |-> GarbageBytes] }
    \cup { [format |-> "BITMAP", data |-> [shape |-> <<sz[2], sz[1], 3>>, px |-> <<255, 255, 255>>]] :
             sz \in PreviewSizes }
    \cup { [format |-> "BITMAP", data |-> [shape |-> <<sz[2], sz[1]>>, px |-> <<200>>]] :
             sz \in PreviewSizes }
    \cup { [format |-> "OTHER", data |-> GarbageBytes] }

\* subprocess.run(["exiftool", "-ver"], timeout=5) ends in one of these
ProbeOutcomes == {"exit0", "exit1", "FileNotFoundError", "TimeoutExpired", "PermissionError"}

\* subprocess.run(["exiftool", "-b", "-<tag>", path], check=True, timeout=10)
ExtractFailures ==
    {"CalledProcessError", "FileNotFoundError", "TimeoutExpired", "PermissionError"}

\* what the tool writes to stdout on exit 0
StdoutPayloads ==
    { EmptyBytes, GarbageBytes, JpegBytes(<<160, 120>>, "RGB", <<254, 0, 0>>),
      JpegBytes(<<50, 30>>, "RGB", <<254, 0, 0>>),
      JpegBytes(<<160, 120>>, "L", <<128>>) }

---------------------------------------------------------------------------
(* The invocation.                                                         *)

\* the calls counted: process_raw itself, rawpy.imread, raw.postprocess,
\* raw.extract_thumb, and the two subprocess.run of thumbnail_extraction.py
CALLS == {"process_raw", "imread", "postprocess", "extract_thumb", "probe", "extract"}

Called(c) == calls' = [calls EXCEPT ![c] = @ + 1]

\* extract_all_thumbnails is not running
ThumbIdle ==
    /\ tag_runs = <<>>
    /\ tag_bytes = <<>>
    /\ tag_tensors = [thumbnail |-> None, preview |-> None, jpg_from_raw |-> None]
    /\ all_result = None

\* the test runner is not running
RunnerIdle ==
    /\ external = "absent"
    /\ server = "none"
    /\ server_process = None
    /\ atexit_registered = FALSE
    /\ polls = 0
    /\ terminations = 0
    /\ exit_code = None

Init ==
    /\ pc = "start"
    /\ \/ caller = "simple" /\ inputs \in SimpleInputs
       \/ caller = "advanced" /\ inputs \in AdvancedInputs
       \/ caller = "direct" /\ inputs \in DirectInputs
    /\ image_path = None
    /\ kw = None
    /\ pp_args = None
    /\ handle = "none"
    /\ rgb = None
    /\ thumb = None
    /\ thumb_array = None
    /\ pr_result = None
    /\ available = None
    /\ thumb_bytes = None
    /\ thumbnail_tensor = None
    /\ exc = None
    /\ output = None
    /\ raised = None
    /\ calls = [c \in CALLS |-> 0]
    /\ tool = [probe |-> None, extract |-> None]
    /\ tables = MODULE_TABLES
    /\ earlier = <<>>
    /\ exits = 0
    /\ ThumbIdle
    /\ RunnerIdle

\* an exception leaves process_raw: a direct caller sees it, a node's
\* try block (nodes.py:78, 333) hands it to its except clause
RaiseFromProcessRaw(e) ==
    IF caller = "direct"
    THEN pc' = "done" /\ raised' = Some(e) /\ exc' = None
    ELSE pc' = "except" /\ exc' = Some(e) /\ raised' = raised

\* nodes.py:74-85: LoadRawImage.execute resolves the path and calls process_raw
SimpleExecute ==
    /\ pc = "start" /\ caller = "simple"
    /\ image_path' = Some(AnnotatedFilepath(inputs.image))
    /\ kw' = Some(SimpleKwargs(inputs, AnnotatedFilepath(inputs.image)))
    /\ pc' = "build"
    /\ Called("process_raw")
    /\ UNCHANGED <<thumbvars, runnervars, exits, tables, earlier, tool,
                   caller, inputs, pp_args, handle, rgb, thumb, thumb_array,
                   pr_result, available, thumb_bytes, thumbnail_tensor, exc,
                   output, raised>>

\* nodes.py:306-353: LoadRawImageAdvanced.execute resolves the path and calls
\* process_raw
AdvancedExecute ==
    /\ pc = "start" /\ caller = "advanced"
    /\ image_path' = Some(AnnotatedFilepath(inputs.image))
    /\ kw' = Some(AdvancedKwargs(inputs, AnnotatedFilepath(inputs.image)))
    /\ pc' = "build"
    /\ Called("process_raw")
    /\ UNCHANGED <<thumbvars, runnervars, exits, tables, earlier, tool,
                   caller, inputs, pp_args, handle, rgb, thumb, thumb_array,
                   pr_result, available, thumb_bytes, thumbnail_tensor, exc,
                   output, raised>>

\* process_raw called with keywords of the caller's own (the unit tests)
DirectCall ==
    /\ pc = "start" /\ caller = "direct"
    /\ image_path' = Some(inputs.image_path)
    /\ kw' = Some(DirectKwargs(inputs))
    /\ pc' = "build"
    /\ Called("process_raw")
    /\ UNCHANGED <<thumbvars, runnervars, exits, tables, earlier, tool,
                   caller, inputs, pp_args, handle, rgb, thumb, thumb_array,
                   pr_result, available, thumb_bytes, thumbnail_tensor, exc,
                   output, raised>>

\* TABLE.setdefault(key, default): a key the table lacks is stored in it
Setdefault(table, key, default) ==
    IF key \in DOMAIN table THEN table ELSE (key :> default) @@ table

\* the lookups done with setdefault: unknown keys stay in the module's tables
BuildArgs_Setdefault ==
    /\ pc = "build"
    /\ pp_args' = Some(PostprocessArgs(tables, Val(kw)))
    /\ tables' =
         [ HIGHLIGHT_MODES |-> Setdefault(tables.HIGHLIGHT_MODES,
                                   Val(kw).highlight_mode_key, "HighlightMode.Clip"),
           DEMOSAIC_ALGORITHMS |-> Setdefault(tables.DEMOSAIC_ALGORITHMS,
                                   Val(kw).demosaic_key, "DemosaicAlgorithm.AHD"),
           OUTPUT_COLORSPACES |-> Setdefault(tables.OUTPUT_COLORSPACES,
                                   Val(kw).colorspace_key, "ColorSpace.sRGB"),
           ORIENTATION_MAP |-> Setdefault(tables.ORIENTATION_MAP,
                                   Val(kw).orientation_key, None),
           FBDD_MODES |-> Setdefault(tables.FBDD_MODES,
                                   Val(kw).fbdd_noise_reduction,
                                   "FBDDNoiseReductionMode.Off") ]
    /\ pc' = "imread"
    /\ UNCHANGED <<thumbvars, runnervars, exits, earlier, tool, calls,
                   caller, inputs, image_path, kw, handle, rgb, thumb,
                   thumb_array, pr_result, available, thumb_bytes,
                   thumbnail_tensor, exc, output, raised>>

\* raw_processing.py:80-116
BuildArgs ==
    /\ pc = "build"
    /\ pp_args' = Some(PostprocessArgs(tables, Val(kw)))
    /\ pc' = "imread"
    /\ UNCHANGED <<thumbvars, runnervars, exits, tables, earlier, tool,
                   calls, caller, inputs, image_path, kw, handle, rgb,
                   thumb, thumb_array, pr_result, available, thumb_bytes,
                   thumbnail_tensor, exc, output, raised>>

\* raw_processing.py:118: rawpy.imread(image_path) opens the file
ImreadOk ==
    /\ pc = "imread"
    /\ handle' = "open"
    /\ pc' = "postprocess"
    /\ Called("imread")
    /\ UNCHANGED <<thumbvars, runnervars, exits, tables, earlier, tool,
                   caller, inputs, image_path, kw, pp_args, rgb, thumb,
                   thumb_array, pr_result, available, thumb_bytes,
                   thumbnail_tensor, exc, output, raised>>

\* a failed rawpy.imread tried again
ImreadFails_Retry ==
    /\ pc = "imread"
    /\ calls["imread"] < 2
    /\ Called("imread")
    /\ UNCHANGED <<thumbvars, runnervars, exits, tables, earlier, tool, pc,
                   caller, inputs, image_path, kw, pp_args, handle, rgb,
                   thumb, thumb_array, pr_result, available, thumb_bytes,
                   thumbnail_tensor, exc, output, raised>>

\* raw_processing.py:118: rawpy.imread raises, nothing was opened
ImreadFails ==
    /\ pc = "imread"
    /\ \E e \in ImreadErrors : RaiseFromProcessRaw(e)
    /\ Called("imread")
    /\ UNCHANGED <<thumbvars, runnervars, exits, tables, earlier, tool,
                   caller, inputs, image_path, kw, pp_args, handle, rgb,
                   thumb, thumb_array, pr_result, available, thumb_bytes,
                   thumbnail_tensor, output>>

\* raw_processing.py:119: raw.postprocess(**pp_args) returns the buffer
PostprocessOk ==
    /\ pc = "postprocess"
    /\ \E buf \in RgbBuffers(Val(pp_args).output_bps) : rgb' = Some(buf)
    /\ pc' = "extract_thumb"
    /\ Called("postprocess")
    /\ UNCHANGED <<thumbvars, runnervars, exits, tables, earlier, tool,
                   caller, inputs, image_path, kw, pp_args, handle, thumb,
                   thumb_array, pr_result, available, thumb_bytes,
                   thumbnail_tensor, exc, output, raised>>

\* raw.postprocess raises and the file stays open (no with block)
PostprocessFails_HandleLeftOpen ==
    /\ pc = "postprocess"
    /\ \E e \in PostprocessErrors : RaiseFromProcessRaw(e)
    /\ handle' = handle
    /\ Called("postprocess")
    /\ exits' = exits
    /\ UNCHANGED <<thumbvars, runnervars, tables, earlier, tool, caller,
                   inputs, image_path, kw, pp_args, rgb, thumb, thumb_array,
                   pr_result, available, thumb_bytes, thumbnail_tensor,
                   output>>

\* raw_processing.py:118-119: raw.postprocess raises; the with block closes
\* the file on the way out
PostprocessFails ==
    /\ pc = "postprocess"
    /\ \E e \in PostprocessErrors : RaiseFromProcessRaw(e)
    /\ handle' = "closed"
    /\ Called("postprocess")
    /\ exits' = exits + 1
    /\ UNCHANGED <<thumbvars, runnervars, tables, earlier, tool, caller,
                   inputs, image_path, kw, pp_args, rgb, thumb, thumb_array,
                   pr_result, available, thumb_bytes, thumbnail_tensor,
                   output>>

\* raw_processing.py:122-125: raw.extract_thumb() returns a thumbnail, or
\* raises and leaves thumb = None; the with block ends
ExtractThumb ==
    /\ pc = "extract_thumb"
    /\ \/ \E t \in Thumbs : thumb' = Some(t)
       \/ \E e \in ExtractThumbErrors : thumb' = None
    /\ handle' = "closed"
    /\ pc' = "thumbnail"
    /\ Called("extract_thumb")
    /\ exits' = exits + 1
    /\ UNCHANGED <<thumbvars, runnervars, tables, earlier, tool, caller,
                   inputs, image_path, kw, pp_args, rgb, thumb_array,
                   pr_result, available, thumb_bytes, thumbnail_tensor, exc,
                   output, raised>>

\* raw_processing.py:127-153
ProcessThumbnail ==
    /\ pc = "thumbnail"
    /\ thumb_array' = Some(EnsureChannels(ThumbToArray(thumb)))
    /\ pc' = "resize"
    /\ UNCHANGED <<thumbvars, runnervars, exits, tables, earlier, tool,
                   calls, caller, inputs, image_path, kw, pp_args, handle,
                   rgb, thumb, pr_result, available, thumb_bytes,
                   thumbnail_tensor, exc, output, raised>>

\* raw_processing.py:155-184: the preview is resized when its long edge
\* exceeds MAX_PREVIEW_SIZE (Image.resize may raise), then both tensors are
\* built and returned
ResizeAndReturn ==
    /\ pc = "resize"
    /\ IF NeedsResize(Val(thumb_array)) /\ ResizeRaises(Val(thumb_array))
       THEN /\ RaiseFromProcessRaw(
                   Exception("ValueError", "height and width must be > 0"))
            /\ UNCHANGED <<thumb_array, pr_result>>
       ELSE /\ thumb_array' =
                   IF NeedsResize(Val(thumb_array))
                   THEN Some(Resized(Val(thumb_array))) ELSE thumb_array
            /\ pr_result' =
                   Some(<<Unsqueeze0(AsFloatDiv(Val(rgb), Divisor(Val(kw).output_16bit))),
                          Unsqueeze0(Val(thumb_array'))>>)
            /\ pc' = IF caller = "direct" THEN "done" ELSE "probe"
            /\ UNCHANGED <<exc, raised>>
    /\ UNCHANGED <<thumbvars, runnervars, exits, tables, earlier, tool,
                   calls, caller, inputs, image_path, kw, pp_args, handle,
                   rgb, thumb, available, thumb_bytes, thumbnail_tensor,
                   output>>

---------------------------------------------------------------------------
(* thumbnail_extraction.py and the rest of the nodes' execute.             *)

\* thumbnail_extraction.py:18-24: "True", "False", or the name of the
\* exception that leaves is_exiftool_available
IsExiftoolAvailable(outcome) ==
    IF outcome = "exit0" THEN "True"
    ELSE IF outcome = "exit1" THEN "False"
    ELSE IF outcome \in {"FileNotFoundError", "TimeoutExpired"} THEN "False"
    ELSE outcome

\* thumbnail_extraction.py:29-31: the tags extract_thumbnail_exiftool accepts
THUMBNAIL_TYPES == <<"ThumbnailImage", "PreviewImage", "JpgFromRaw">>

\* nodes.py:103, 371: the tag both nodes ask for
NodeThumbnailType == "ThumbnailImage"

\* stdout returned whatever it holds
StdoutOrNone_AsIs(stdout) == Some(stdout)

\* thumbnail_extraction.py:53: result.stdout if result.stdout else None
StdoutOrNone(stdout) == IF stdout.kind = "empty" THEN None ELSE Some(stdout)

\* thumbnail_extraction.py:54-59: the failures extract_thumbnail_exiftool
\* answers with None
EXTRACT_CAUGHT == {"CalledProcessError", "FileNotFoundError", "TimeoutExpired"}

\* the message of an OSError of the subprocess call
OsErrorMessage(type) == "[Errno 13] Permission denied: 'exiftool'"

\* thumbnail_extraction.py:72-75: bytes_to_tensor of bytes PIL can decode
BytesToTensor(data) ==
    Unsqueeze0(AsFloatDiv(NpArray(ConvertRGB(Val(ImageOpen(data)))), 255))

\* the message with nothing put before it
WrapMessage_Bare(e) == e.msg

\* nodes.py:115, 383: f"Failed to load RAW image: {str(e)}"
WrapMessage(e) == "Failed to load RAW image: " \o e.msg

\* subprocess.run without its timeout: a tool that hangs is waited for
Probe_NoTimeout ==
    /\ pc = "probe"
    /\ \E o \in ProbeOutcomes :
         LET a == IsExiftoolAvailable(o) IN
         /\ IF o = "TimeoutExpired"
            THEN pc' = "blocked" /\ UNCHANGED <<available, exc>>
            ELSE IF a \in {"True", "False"}
            THEN /\ available' = Some(a = "True")
                 /\ pc' = IF a = "True" THEN "extract" ELSE "return"
                 /\ exc' = exc
            ELSE /\ exc' = Some(Exception(a, OsErrorMessage(a)))
                 /\ pc' = "except"
                 /\ available' = available
         /\ tool' = [tool EXCEPT !.probe = Some(o)]
    /\ Called("probe")
    /\ UNCHANGED <<thumbvars, runnervars, exits, tables, earlier, caller,
                   inputs, image_path, kw, pp_args, handle, rgb, thumb,
                   thumb_array, pr_result, thumb_bytes, thumbnail_tensor,
                   output, raised>>

\* the extraction attempted whatever the probe answered
Probe_AnswerIgnored ==
    /\ pc = "probe"
    /\ \E o \in ProbeOutcomes :
         LET a == IsExiftoolAvailable(o) IN
         /\ IF a \in {"True", "False"}
            THEN /\ available' = Some(a = "True")
                 /\ pc' = "extract"
                 /\ exc' = exc
            ELSE /\ exc' = Some(Exception(a, OsErrorMessage(a)))
                 /\ pc' = "except"
                 /\ available' = available
         /\ tool' = [tool EXCEPT !.probe = Some(o)]
    /\ Called("probe")
    /\ UNCHANGED <<thumbvars, runnervars, exits, tables, earlier, caller,
                   inputs, image_path, kw, pp_args, handle, rgb, thumb,
                   thumb_array, pr_result, thumb_bytes, thumbnail_tensor,
                   output, raised>>

\* nodes.py:102, 370 with thumbnail_extraction.py:18-24
Probe ==
    /\ pc = "probe"
    /\ \E o \in ProbeOutcomes :
         LET a == IsExiftoolAvailable(o) IN
         /\ IF a \in {"True", "False"}
            THEN /\ available' = Some(a = "True")
                 /\ pc' = IF a = "True" THEN "extract" ELSE "return"
                 /\ exc' = exc
            ELSE /\ exc' = Some(Exception(a, OsErrorMessage(a)))
                 /\ pc' = "except"
                 /\ available' = available
         /\ tool' = [tool EXCEPT !.probe = Some(o)]
    /\ Called("probe")
    /\ UNCHANGED <<thumbvars, runnervars, exits, tables, earlier, caller,
                   inputs, image_path, kw, pp_args, handle, rgb, thumb,
                   thumb_array, pr_result, thumb_bytes, thumbnail_tensor,
                   output, raised>>

\* nodes.py:103-104, 371-372 with thumbnail_extraction.py:46-53: the tool
\* exits 0 and its stdout is the payload
ExtractExitZero ==
    /\ pc = "extract"
    /\ \E payload \in StdoutPayloads :
         /\ thumb_bytes' = StdoutOrNone(payload)
         /\ pc' = IF StdoutOrNone(payload) # None THEN "decode" ELSE "return"
         /\ tool' = [tool EXCEPT !.extract =
                       Some([status |-> "exit0", stdout |-> payload,
                             tag |-> NodeThumbnailType])]
    /\ Called("extract")
    /\ UNCHANGED <<thumbvars, runnervars, exits, tables, earlier, caller,
                   inputs, image_path, kw, pp_args, handle, rgb, thumb,
                   thumb_array, pr_result, available, thumbnail_tensor, exc,
                   output, raised>>

\* nodes.py:103, 371 with thumbnail_extraction.py:54-59: the subprocess call
\* raises
ExtractFails ==
    /\ pc = "extract"
    /\ \E f \in ExtractFailures :
         /\ IF f \in EXTRACT_CAUGHT
            THEN pc' = "return" /\ exc' = exc
            ELSE pc' = "except" /\ exc' = Some(Exception(f, OsErrorMessage(f)))
         /\ tool' = [tool EXCEPT !.extract =
                       Some([status |-> f, stdout |-> EmptyBytes,
                             tag |-> NodeThumbnailType])]
    /\ Called("extract")
    /\ UNCHANGED <<thumbvars, runnervars, exits, tables, earlier, caller,
                   inputs, image_path, kw, pp_args, handle, rgb, thumb,
                   thumb_array, pr_result, available, thumb_bytes,
                   thumbnail_tensor, output, raised>>

\* nodes.py:105, 373 with thumbnail_extraction.py:62-75: PIL decodes the
\* payload or raises
Decode ==
    /\ pc = "decode"
    /\ IF ImageOpen(Val(thumb_bytes)) # None
       THEN /\ thumbnail_tensor' = Some(BytesToTensor(Val(thumb_bytes)))
            /\ pc' = "return"
            /\ exc' = exc
       ELSE /\ exc' = Some(Exception("UnidentifiedImageError",
                                     "cannot identify image file"))
            /\ pc' = "except"
            /\ thumbnail_tensor' = thumbnail_tensor
    /\ UNCHANGED <<thumbvars, runnervars, exits, tables, earlier, tool,
                   calls, caller, inputs, image_path, kw, pp_args, handle,
                   rgb, thumb, thumb_array, pr_result, available,
                   thumb_bytes, output, raised>>

\* nodes.py:107-113, 375-381: the placeholder when no thumbnail was decoded,
\* and the three outputs
NodeReturn ==
    /\ pc = "return"
    /\ thumbnail_tensor' =
           IF thumbnail_tensor = None THEN Some(ZerosTensor) ELSE thumbnail_tensor
    /\ output' = Some(<<Val(pr_result)[1], Val(pr_result)[2], Val(thumbnail_tensor')>>)
    /\ pc' = "done"
    /\ UNCHANGED <<thumbvars, runnervars, exits, tables, earlier, tool,
                   calls, caller, inputs, image_path, kw, pp_args, handle,
                   rgb, thumb, thumb_array, pr_result, available,
                   thumb_bytes, exc, raised>>

\* nodes.py:114-115, 382-383: except Exception as e: raise RuntimeError(...)
ExceptHandler ==
    /\ pc = "except"
    /\ raised' = Some(Exception("RuntimeError", WrapMessage(Val(exc))))
    /\ pc' = "done"
    /\ UNCHANGED <<thumbvars, runnervars, exits, tables, earlier, tool,
                   calls, caller, inputs, image_path, kw, pp_args, handle,
                   rgb, thumb, thumb_array, pr_result, available,
                   thumb_bytes, thumbnail_tensor, exc, output>>

Next ==
    \/ SimpleExecute
    \/ AdvancedExecute
    \/ DirectCall
    \/ BuildArgs
    \/ ImreadOk
    \/ ImreadFails
    \/ PostprocessOk
    \/ PostprocessFails
    \/ ExtractThumb
    \/ ProcessThumbnail
    \/ ResizeAndReturn
    \/ Probe
    \/ ExtractExitZero
    \/ ExtractFails
    \/ Decode
    \/ NodeReturn
    \/ ExceptHandler

Spec == Init /\ [][Next]_vars


---------------------------------------------------------------------------
(* Several invocations, one after the other, in the same interpreter: the  *)
(* module's tables stay, everything else of an invocation is local to it.  *)

\* <<caller, inputs>> of the invocations followed in sequence
SeqRequests ==
    { <<"simple", [image |-> "photo.arw", output_16bit |-> FALSE,
                   white_balance |-> "auto", highlight_mode |-> "blend"]>>,
      <<"advanced", [ADVANCED_DEFAULTS EXCEPT !.white_balance = "custom",
                         !.custom_wb_r = 1500, !.custom_wb_g1 = 1000,
                         !.custom_wb_b = 1200, !.custom_wb_g2 = 1000]>>,
      <<"direct", [image_path |-> "/input/photo.arw"] @@
                  [PROCESS_RAW_DEFAULTS EXCEPT !.demosaic_key = UnknownKey,
                       !.highlight_mode_key = UnknownKey,
                       !.orientation_key = UnknownKey,
                       !.colorspace_key = UnknownKey,
                       !.fbdd_noise_reduction = UnknownKey]>>,
      <<"direct", [image_path |-> "/input/photo.arw"] @@
                  [PROCESS_RAW_DEFAULTS EXCEPT !.white_balance = "auto"]>> }

InitSeq == Init /\ <<caller, inputs>> \in SeqRequests

\* the invocation is over and the next one begins: a new call of execute
\* or process_raw, whose locals are new
NextInvocation ==
    /\ pc = "done"
    /\ Len(earlier) < MaxInvocations - 1
    /\ earlier' = Append(earlier, IF raised = None THEN "returned" ELSE "raised")
    /\ \E r \in SeqRequests : caller' = r[1] /\ inputs' = r[2]
    /\ pc' = "start"
    /\ image_path' = None
    /\ kw' = None
    /\ pp_args' = None
    /\ handle' = "none"
    /\ rgb' = None
    /\ thumb' = None
    /\ thumb_array' = None
    /\ pr_result' = None
    /\ available' = None
    /\ thumb_bytes' = None
    /\ thumbnail_tensor' = None
    /\ exc' = None
    /\ output' = None
    /\ raised' = None
    /\ calls' = [c \in CALLS |-> 0]
    /\ tool' = [probe |-> None, extract |-> None]
    /\ exits' = 0
    /\ UNCHANGED <<tables, thumbvars, runnervars>>

\* nodes.py:101-115: the steps of execute after process_raw
NodeSteps ==
    \/ Probe
    \/ ExtractExitZero
    \/ ExtractFails
    \/ Decode
    \/ NodeReturn
    \/ ExceptHandler

\* one invocation of a request of SeqRequests in which the interpreter runs
\* the code of execute on: a step after process_raw that can be taken is
\* taken (every subprocess.run ends by exit, error or its timeout, PIL
\* returns or raises)
SpecLive == InitSeq /\ [][Next]_vars /\ WF_vars(NodeSteps)

NextSeq ==
    \/ Next
    \/ NextInvocation

SpecSeq == InitSeq /\ [][NextSeq]_vars

---------------------------------------------------------------------------
(* extract_all_thumbnails, thumbnail_extraction.py:78-104: three           *)
(* extractions, each followed by the conversion of what it returned.       *)

\* thumbnail_extraction.py:88-90: the local that holds the tensor of the
\* i-th tag
TagLocal == <<"thumbnail", "preview", "jpg_from_raw">>

\* the position after the i-th tag is dealt with
AfterTag(i) == IF i = Len(THUMBNAIL_TYPES) THEN "return_all" ELSE "extract_tag"

InitAll ==
    /\ pc = "extract_tag"
    /\ caller = "extract_all_thumbnails"
    /\ inputs = [raw_path |-> "/input/photo.arw"]
    /\ image_path = None
    /\ kw = None
    /\ pp_args = None
    /\ handle = "none"
    /\ rgb = None
    /\ thumb = None
    /\ thumb_array = None
    /\ pr_result = None
    /\ available = None
    /\ thumb_bytes = None
    /\ thumbnail_tensor = None
    /\ exc = None
    /\ output = None
    /\ raised = None
    /\ calls = [c \in CALLS |-> 0]
    /\ tool = [probe |-> None, extract |-> None]
    /\ tables = MODULE_TABLES
    /\ earlier = <<>>
    /\ exits = 0
    /\ ThumbIdle
    /\ RunnerIdle

\* thumbnail_extraction.py:92, 96, 100 with 46-53: the extraction of the
\* next tag exits 0
AllExtractExitZero ==
    /\ pc = "extract_tag"
    /\ LET i == Len(tag_runs) + 1 IN
       \E payload \in StdoutPayloads :
         /\ tag_runs' = Append(tag_runs, [tag |-> THUMBNAIL_TYPES[i],
                                          status |-> "exit0", stdout |-> payload])
         /\ tag_bytes' = Append(tag_bytes, StdoutOrNone(payload))
         /\ pc' = IF StdoutOrNone(payload) # None THEN "convert_tag" ELSE AfterTag(i)
    /\ UNCHANGED <<tag_tensors, all_result, runnervars, exits, tables, earlier,
                   tool, calls, caller, inputs, image_path, kw, pp_args,
                   handle, rgb, thumb, thumb_array, pr_result, available,
                   thumb_bytes, thumbnail_tensor, exc, output, raised>>

\* thumbnail_extraction.py:92, 96, 100 with 54-59: the subprocess call of the
\* next tag raises; what the except clause does not list leaves
\* extract_all_thumbnails
AllExtractFails ==
    /\ pc = "extract_tag"
    /\ LET i == Len(tag_runs) + 1 IN
       \E f \in ExtractFailures :
         /\ tag_runs' = Append(tag_runs, [tag |-> THUMBNAIL_TYPES[i],
                                          status |-> f, stdout |-> EmptyBytes])
         /\ IF f \in EXTRACT_CAUGHT
            THEN /\ tag_bytes' = Append(tag_bytes, None)
                 /\ pc' = AfterTag(i)
                 /\ raised' = raised
            ELSE /\ tag_bytes' = tag_bytes
                 /\ pc' = "done"
                 /\ raised' = Some(Exception(f, OsErrorMessage(f)))
    /\ UNCHANGED <<tag_tensors, all_result, runnervars, exits, tables, earlier,
                   tool, calls, caller, inputs, image_path, kw, pp_args,
                   handle, rgb, thumb, thumb_array, pr_result, available,
                   thumb_bytes, thumbnail_tensor, exc, output>>

\* thumbnail_extraction.py:93-94, 97-98, 101-102: bytes_to_tensor of the
\* bytes just returned; PIL's exception leaves extract_all_thumbnails
AllConvert ==
    /\ pc = "convert_tag"
    /\ LET i == Len(tag_bytes)
           data == Val(tag_bytes[i])
       IN  IF ImageOpen(data) # None
           THEN /\ tag_tensors' =
                       [tag_tensors EXCEPT ![TagLocal[i]] = Some(BytesToTensor(data))]
                /\ pc' = AfterTag(i)
                /\ raised' = raised
           ELSE /\ raised' = Some(Exception("UnidentifiedImageError",
                                            "cannot identify image file"))
                /\ pc' = "done"
                /\ tag_tensors' = tag_tensors
    /\ UNCHANGED <<tag_runs, tag_bytes, all_result, runnervars, exits, tables,
                   earlier, tool, calls, caller, inputs, image_path, kw,
                   pp_args, handle, rgb, thumb, thumb_array, pr_result,
                   available, thumb_bytes, thumbnail_tensor, exc, output>>

\* thumbnail_extraction.py:104
AllReturn ==
    /\ pc = "return_all"
    /\ all_result' = Some(<<tag_tensors.thumbnail, tag_tensors.preview,
                            tag_tensors.jpg_from_raw>>)
    /\ pc' = "done"
    /\ UNCHANGED <<tag_runs, tag_bytes, tag_tensors, runnervars, exits, tables,
                   earlier, tool, calls, caller, inputs, image_path, kw,
                   pp_args, handle, rgb, thumb, thumb_array, pr_result,
                   available, thumb_bytes, thumbnail_tensor, exc, output,
                   raised>>

NextAll ==
    \/ AllExtractExitZero
    \/ AllExtractFails
    \/ AllConvert
    \/ AllReturn

SpecAll == InitAll /\ [][NextAll]_vars

---------------------------------------------------------------------------
(* run_tests.py: the test runner and the ComfyUI server it may start.      *)
(* The runner's exit status is a number; -15 stands for "ended by          *)
(* SIGTERM".                                                               *)

\* the variables of a node invocation, which the runner does not touch
decodevars == <<image_path, kw, pp_args, handle, rgb, thumb, thumb_array,
                pr_result, available, thumb_bytes, thumbnail_tensor, exc,
                output, raised, calls, tool, tables, earlier, exits>>

\* x in s, for a Python list s
In(x, s) == \E i \in 1..Len(s) : s[i] = x

\* run_tests.py:99
RunningIntegration(args) == ~In("-m", args) \/ In("integration", args)

\* run_tests.py:100
RunningUnitOnly(args) ==
    In("-m", args) /\ In("unit", args) /\ ~In("integration", args)

\* run_tests.py:71: for i in range(60)
STARTUP_POLLS == 60

\* the exit status of a process ended by SIGTERM
KilledBySigterm == -15

\* run_tests.py:9-11 and other command lines: sys.argv[1:]
RunnerArgs ==
    { <<>>, <<"-v">>, <<"-m", "unit">>, <<"-m", "integration">>,
      <<"-v", "-m", "integration">> }

\* sys.platform
Platforms == {"win32", "linux"}

\* run_tests.py:32-42: something accepts connections on 127.0.0.1:8188
IsServerRunning == external = "listening" \/ server = "listening"

InitRunner ==
    /\ pc = "main"
    /\ caller = "run_tests"
    /\ inputs \in [args : RunnerArgs, platform : Platforms]
    /\ external \in {"absent", "listening"}
    /\ server = "none"
    /\ server_process = None
    /\ atexit_registered = FALSE
    /\ polls = 0
    /\ terminations = 0
    /\ exit_code = None
    /\ image_path = None
    /\ kw = None
    /\ pp_args = None
    /\ handle = "none"
    /\ rgb = None
    /\ thumb = None
    /\ thumb_array = None
    /\ pr_result = None
    /\ available = None
    /\ thumb_bytes = None
    /\ thumbnail_tensor = None
    /\ exc = None
    /\ output = None
    /\ raised = None
    /\ calls = [c \in CALLS |-> 0]
    /\ tool = [probe |-> None, extract |-> None]
    /\ tables = MODULE_TABLES
    /\ earlier = <<>>
    /\ exits = 0
    /\ ThumbIdle

\* run_tests.py:83-93: stop_comfyui_server ending in `result`:
\*   "returned"        nothing recorded, or the process was terminated and
\*                     waited for, and the record is cleared;
\*   "TimeoutExpired"  wait(timeout=10) raised: the record stays;
\*   "killed"          not win32: SIGTERM went to the process group of the
\*                     server, which is the runner's own (Popen at lines
\*                     56-64 starts no new group or session there), so the
\*                     runner ends with the server.
StopComfyuiServer(result) ==
    IF server_process = None
    THEN /\ result = "returned"
         /\ UNCHANGED <<server, server_process, terminations>>
    ELSE /\ terminations' = terminations + 1
         /\ IF inputs.platform = "win32"
            THEN \/ /\ result = "returned"
                    /\ server' = "terminated"
                    /\ server_process' = None
                 \/ /\ result = "TimeoutExpired"
                    /\ UNCHANGED <<server, server_process>>
            ELSE /\ result = "killed"
                 /\ server' = "terminated"
                 /\ UNCHANGED server_process

StopResults == {"returned", "TimeoutExpired", "killed"}

\* run_tests.py:96-104: main decides whether a server is needed
Main ==
    /\ pc = "main"
    /\ pc' = IF RunningIntegration(inputs.args) /\ ~RunningUnitOnly(inputs.args)
             THEN "start_server" ELSE "pytest"
    /\ UNCHANGED <<runnervars, thumbvars, decodevars, caller, inputs>>

\* run_tests.py:49-51: a server that already listens is used as it is
StartCheck ==
    /\ pc = "start_server"
    /\ pc' = IF IsServerRunning THEN "pytest" ELSE "popen"
    /\ UNCHANGED <<runnervars, thumbvars, decodevars, caller, inputs>>

\* run_tests.py:56-67: the server is started and the cleanup registered, or
\* Popen raises (PYTHON_EXE missing) and the runner ends with a traceback
PopenServer ==
    /\ pc = "popen"
    /\ \/ /\ server' = "starting"
          /\ server_process' = Some("Popen")
          /\ atexit_registered' = TRUE
          /\ pc' = "poll"
          /\ UNCHANGED exit_code
       \/ /\ exit_code' = Some(1)
          /\ pc' = "exited"
          /\ UNCHANGED <<server, server_process, atexit_registered>>
    /\ UNCHANGED <<external, polls, terminations, thumbvars, decodevars,
                   caller, inputs>>

\* the started server begins to listen
ServerReady ==
    /\ server = "starting"
    /\ server' = "listening"
    /\ UNCHANGED <<pc, external, server_process, atexit_registered, polls,
                   terminations, exit_code, thumbvars, decodevars, caller,
                   inputs>>

\* run_tests.py:71-76: one round of the readiness loop
Poll ==
    /\ pc = "poll"
    /\ IF IsServerRunning
       THEN pc' = "pytest" /\ polls' = polls
       ELSE /\ polls' = polls + 1
            /\ pc' = IF polls + 1 = STARTUP_POLLS THEN "startup_failed" ELSE "poll"
    /\ UNCHANGED <<external, server, server_process, atexit_registered,
                   terminations, exit_code, thumbvars, decodevars, caller,
                   inputs>>

\* run_tests.py:78-80: stop_comfyui_server(); sys.exit(1).  An exception of
\* the stop ends the runner with status 1 as well.
StartupFailed ==
    /\ pc = "startup_failed"
    /\ \E r \in StopResults :
         /\ StopComfyuiServer(r)
         /\ IF r = "killed"
            THEN exit_code' = Some(KilledBySigterm) /\ pc' = "exited"
            ELSE exit_code' = Some(1) /\ pc' = "atexit"
    /\ UNCHANGED <<external, atexit_registered, polls, thumbvars, decodevars,
                   caller, inputs>>

\* run_tests.py:107-118: pytest runs and returns its code, or subprocess.run
\* raises
RunPytest ==
    /\ pc = "pytest"
    /\ \E returncode \in {0, 1} : exit_code' = Some(returncode)
    /\ pc' = "finally"
    /\ UNCHANGED <<external, server, server_process, atexit_registered, polls,
                   terminations, thumbvars, decodevars, caller, inputs>>

\* run_tests.py:119-120, 124: finally: stop_comfyui_server(), then
\* sys.exit(main()); an exception of the stop replaces the return
Finally ==
    /\ pc = "finally"
    /\ \E r \in StopResults :
         /\ StopComfyuiServer(r)
         /\ exit_code' = IF r = "killed" THEN Some(KilledBySigterm)
                         ELSE IF r = "TimeoutExpired" THEN Some(1)
                         ELSE exit_code
         /\ pc' = IF r = "killed" THEN "exited" ELSE "atexit"
    /\ UNCHANGED <<external, atexit_registered, polls, thumbvars, decodevars,
                   caller, inputs>>

\* run_tests.py:67: at interpreter exit the registered stop_comfyui_server
\* runs; an exception in it is printed and changes nothing
AtExit ==
    /\ pc = "atexit"
    /\ IF atexit_registered
       THEN \E r \in StopResults :
              /\ StopComfyuiServer(r)
              /\ exit_code' = IF r = "killed" THEN Some(KilledBySigterm)
                              ELSE exit_code
       ELSE UNCHANGED <<server, server_process, terminations, exit_code>>
    /\ pc' = "exited"
    /\ UNCHANGED <<external, atexit_registered, polls, thumbvars, decodevars,
                   caller, inputs>>

NextRunner ==
    \/ Main
    \/ StartCheck
    \/ PopenServer
    \/ ServerReady
    \/ Poll
    \/ StartupFailed
    \/ RunPytest
    \/ Finally
    \/ AtExit

SpecRunner == InitRunner /\ [][NextRunner]_vars

---------------------------------------------------------------------------
(* Properties.                                                             *)

\* raw.postprocess(**pp_args) has been called: the file was opened and the
\* invocation is past the call
PostprocessCalled == pp_args # None /\ handle # "none" /\ pc # "postprocess"

WB_KEYS == {"use_camera_wb", "use_auto_wb", "user_wb"}

\* C1: for every white_balance value process_raw receives, the white-balance
\* keys forwarded to postprocess are exactly: use_camera_wb=True for "camera",
\* use_auto_wb=True for "auto", user_wb for "custom", none of the three for any
\* other value; user_wb is absent whenever the mode is not "custom", whatever
\* the multipliers.
C1_WhiteBalanceModeExclusive ==
    pp_args # None =>
        LET a == Val(pp_args)
            wb == Val(kw).white_balance
            present == DOMAIN a \cap WB_KEYS
        IN  /\ wb = "camera" => present = {"use_camera_wb"} /\ a.use_camera_wb = TRUE
            /\ wb = "auto" => present = {"use_auto_wb"} /\ a.use_auto_wb = TRUE
            /\ wb = "custom" => present = {"user_wb"}
            /\ wb \notin {"camera", "auto", "custom"} => present = {}
            /\ wb # "custom" => "user_wb" \notin DOMAIN a

\* C1 witness: "daylight" with multipliers other than the defaults reached
\* postprocess without any white-balance key
C1_Witness ==
    /\ PostprocessCalled
    /\ Val(kw).white_balance = "daylight"
    /\ Val(kw).custom_wb = <<1500, 1000, 1200, 1000>>
    /\ DOMAIN Val(pp_args) \cap WB_KEYS = {}

\* C2: with white_balance "custom" the four multipliers are forwarded as
\* user_wb in the order given (red, green1, blue, green2), unchanged; through
\* the advanced node that order is (custom_wb_r, custom_wb_g1, custom_wb_b,
\* custom_wb_g2).
C2_CustomMultipliersInOrder ==
    (pp_args # None /\ Val(kw).white_balance = "custom") =>
        LET wb == Val(pp_args).user_wb IN
        /\ Len(wb) = 4
        /\ \A i \in 1..4 : wb[i] = Val(kw).custom_wb[i]
        /\ caller = "direct" => wb = inputs.custom_wb
        /\ caller = "advanced" =>
               /\ wb[1] = inputs.custom_wb_r
               /\ wb[2] = inputs.custom_wb_g1
               /\ wb[3] = inputs.custom_wb_b
               /\ wb[4] = inputs.custom_wb_g2

\* C2 witness: the advanced node forwarded (1.5, 1.0, 1.2, 1.0) to postprocess
C2_Witness ==
    /\ PostprocessCalled
    /\ caller = "advanced"
    /\ inputs.white_balance = "custom"
    /\ inputs.custom_wb_r = 1500 /\ inputs.custom_wb_b = 1200
    /\ Val(pp_args).user_wb = <<1500, 1000, 1200, 1000>>

\* C3: a key that is in no option table never makes process_raw fail: the
\* field resolves to its table's default (AHD, Clip, None, sRGB, Off) and the
\* invocation goes on to the decode step with no exception.
C3_UnknownKeyFallsBackToDefault ==
    pp_args # None =>
        LET a == Val(pp_args)
            k == Val(kw)
        IN  /\ k.demosaic_key \notin DOMAIN DEMOSAIC_ALGORITHMS =>
                   a.demosaic_algorithm = "DemosaicAlgorithm.AHD"
            /\ k.highlight_mode_key \notin DOMAIN HIGHLIGHT_MODES =>
                   a.highlight_mode = "HighlightMode.Clip"
            /\ k.orientation_key \notin DOMAIN ORIENTATION_MAP =>
                   a.user_flip = None
            /\ k.colorspace_key \notin DOMAIN OUTPUT_COLORSPACES =>
                   a.output_color = "ColorSpace.sRGB"
            /\ k.fbdd_noise_reduction \notin DOMAIN FBDD_MODES =>
                   a.fbdd_noise_reduction = "FBDDNoiseReductionMode.Off"
            /\ pc = "imread" => exc = None /\ raised = None

\* C3 witness: all five keys unknown, and postprocess was called and returned
C3_Witness ==
    /\ PostprocessCalled
    /\ rgb # None
    /\ Val(kw).demosaic_key = UnknownKey
    /\ Val(kw).highlight_mode_key = UnknownKey
    /\ Val(kw).orientation_key = UnknownKey
    /\ Val(kw).colorspace_key = UnknownKey
    /\ Val(kw).fbdd_noise_reduction = UnknownKey
    /\ Val(pp_args).demosaic_algorithm = "DemosaicAlgorithm.AHD"
    /\ Val(pp_args).user_flip = None

\* C4: a key that is in its option table is forwarded as that key's table
\* entry, which for every key but the default one differs from the default.
C4_KnownKeyForwardsItsEntry ==
    pp_args # None =>
        LET a == Val(pp_args)
            k == Val(kw)
        IN  /\ k.demosaic_key \in DOMAIN DEMOSAIC_ALGORITHMS =>
                   /\ a.demosaic_algorithm = DEMOSAIC_ALGORITHMS[k.demosaic_key]
                   /\ k.demosaic_key # "AHD" =>
                          a.demosaic_algorithm # "DemosaicAlgorithm.AHD"
            /\ k.highlight_mode_key \in DOMAIN HIGHLIGHT_MODES =>
                   /\ a.highlight_mode = HIGHLIGHT_MODES[k.highlight_mode_key]
                   /\ k.highlight_mode_key # "clip" =>
                          a.highlight_mode # "HighlightMode.Clip"
            /\ k.orientation_key \in DOMAIN ORIENTATION_MAP =>
                   /\ a.user_flip = ORIENTATION_MAP[k.orientation_key]
                   /\ k.orientation_key # "auto" => a.user_flip # None
            /\ k.colorspace_key \in DOMAIN OUTPUT_COLORSPACES =>
                   /\ a.output_color = OUTPUT_COLORSPACES[k.colorspace_key]
                   /\ k.colorspace_key # "sRGB" => a.output_color # "ColorSpace.sRGB"
            /\ k.fbdd_noise_reduction \in DOMAIN FBDD_MODES =>
                   /\ a.fbdd_noise_reduction = FBDD_MODES[k.fbdd_noise_reduction]
                   /\ k.fbdd_noise_reduction # "off" =>
                          a.fbdd_noise_reduction # "FBDDNoiseReductionMode.Off"

\* C4 witness: demosaic key "AMAZE" reached postprocess as the AMAZE member
C4_Witness ==
    /\ PostprocessCalled
    /\ Val(kw).demosaic_key = "AMAZE"
    /\ Val(pp_args).demosaic_algorithm = "DemosaicAlgorithm.AMAZE"

\* C5 as stated: whenever the noise threshold process_raw is given is zero or
\* absent, the noise_thr forwarded to postprocess is None, never the number 0.
C5_ZeroThresholdForwardedAsNone ==
    (pp_args # None /\ Val(kw).noise_thr \in {None, Some(0)}) =>
        Val(pp_args).noise_thr = None

\* C5 amended: process_raw forwards the noise_thr it is given unchanged (None
\* by default, and 0 when it is called with 0); it is the advanced node that
\* hands process_raw None for a threshold that is not above zero, and the
\* simple node never passes one, so through either node a zero or absent
\* threshold reaches postprocess as None and a positive one unchanged.
C5_NodeTurnsZeroIntoNone ==
    pp_args # None =>
        LET thr == Val(pp_args).noise_thr IN
        /\ thr = Val(kw).noise_thr
        /\ caller = "simple" => thr = None
        /\ caller = "advanced" =>
               /\ inputs.noise_thr <= 0 => thr = None
               /\ inputs.noise_thr > 0 => thr = Some(inputs.noise_thr)
        /\ caller = "direct" => thr = inputs.noise_thr

\* C5 witness: the advanced node's default threshold 0 reached postprocess as
\* None
C5_Witness ==
    /\ PostprocessCalled
    /\ caller = "advanced"
    /\ inputs.noise_thr = 0
    /\ Val(pp_args).noise_thr = None

\* C6: the image process_raw returns is the postprocess buffer with a batch
\* dimension of 1 prepended and every sample divided by 65535 when
\* output_16bit, by 255 otherwise: a fixed rescale by the depth's full scale,
\* so a full-scale sample becomes 1, a zero sample 0, and any other sample s
\* the fraction s / divisor whatever the largest sample of the buffer is.
C6_FixedLinearNormalisation ==
    pr_result # None =>
        LET img == Val(pr_result)[1]
            buf == Val(rgb)
            d == IF Val(kw).output_16bit THEN 65535 ELSE 255
        IN  /\ img.shape = <<1>> \o buf.shape
            /\ Len(img.shape) = 4 /\ img.shape[1] = 1
            /\ DOMAIN img.px = DOMAIN buf.px
            /\ \A i \in DOMAIN buf.px :
                   /\ d % img.px[i][2] = 0
                   /\ img.px[i][1] * (d \div img.px[i][2]) = buf.px[i]
                   /\ buf.px[i] = d => img.px[i] = <<1, 1>>
                   /\ buf.px[i] = 0 => img.px[i] = <<0, 1>>

\* C6 witness: a 16-bit buffer filled with 65535 was returned as all ones
C6_Witness ==
    /\ pr_result # None
    /\ Val(kw).output_16bit
    /\ Val(rgb).px = <<65535, 65535, 65535>>
    /\ Val(pr_result)[1].px = <<<<1, 1>>, <<1, 1>>, <<1, 1>>>>
    /\ Val(pr_result)[1].shape = <<1, 100, 100, 3>>

\* raw.postprocess returned a buffer
DecodeSucceeded == rgb # None

\* rawpy.imread or raw.postprocess raised
DecodeFailed ==
    /\ rgb = None
    /\ calls["imread"] > 0
    /\ pc \in {"except", "done"}

\* process_raw is over: it returned or an exception left it
ProcessRawOver == pc \in {"probe", "extract", "decode", "return", "except", "done"}

\* the embedded-preview path failed: extract_thumb raised, the JPEG data could
\* not be decoded, or the thumbnail format is neither JPEG nor BITMAP
PreviewPathFailed ==
    /\ thumb_array # None
    /\ \/ thumb = None
       \/ /\ thumb # None
          /\ \/ Val(thumb).format \notin {"JPEG", "BITMAP"}
             \/ Val(thumb).format = "JPEG" /\ ImageOpen(Val(thumb).data) = None

\* C7: once postprocess has succeeded process_raw returns normally whatever
\* the embedded-preview path does: no failure of that path, the later resize
\* included, leaves process_raw as an exception, and when the path failed the
\* preview is the all-zero tensor of shape (1, 1, 1, 3).
C7_PreviewFailureNeverPropagates ==
    (DecodeSucceeded /\ ProcessRawOver) =>
        /\ pr_result # None
        /\ PreviewPathFailed => Val(pr_result)[2] = ZerosTensor

\* the exiftool path behaved in one of the ways C8 lists (tool missing, probe
\* timeout, non-zero exit, extraction timeout, empty output, undecodable
\* output): after process_raw has returned, the only exception among them is
\* PIL's on undecodable output
ListedToolBehaviour == exc # None => Val(exc).type = "UnidentifiedImageError"

\* C8: in both nodes, once process_raw has returned, nothing the exiftool path
\* does (tool missing, probe timeout, non-zero exit, extraction timeout, empty
\* or undecodable output) raises an error: the node ends by returning the
\* primary image, with the all-zero (1, 1, 1, 3) tensor as thumbnail whenever
\* none was decoded.
C8_ThumbnailFailureNeverBlocks ==
    (caller # "direct" /\ pr_result # None /\ ListedToolBehaviour) =>
        /\ exc = None /\ raised = None
        /\ pc = "done" =>
               /\ output # None
               /\ Val(output)[1] = Val(pr_result)[1]
               /\ (thumb_bytes = None \/ ImageOpen(Val(thumb_bytes)) = None) =>
                      Val(output)[3] = ZerosTensor

\* C9: in a node, an exception raised by process_raw or by the thumbnail
\* extractor always leaves execute as one RuntimeError whose message is
\* "Failed to load RAW image: " followed by the message of the exception that
\* was caught; nothing else is raised and no output is returned then.
C9_ErrorsWrappedAsRuntimeError ==
    caller # "direct" =>
        /\ raised # None =>
               /\ pc = "done" /\ exc # None /\ output = None
               /\ Val(raised).type = "RuntimeError"
               /\ Val(raised).msg = "Failed to load RAW image: " \o Val(exc).msg
        /\ (pc = "done" /\ exc # None) => raised # None
        /\ output # None => exc = None /\ raised = None

\* C9 witness: rawpy.imread failed with an I/O error and the node raised the
\* RuntimeError carrying its message
C9_Witness ==
    /\ caller = "simple"
    /\ pc = "done"
    /\ Val(exc) = Exception("LibRawIOError", "Input/output error")
    /\ Val(raised) =
           Exception("RuntimeError", "Failed to load RAW image: Input/output error")

\* C10: the decoded image is all-or-nothing: when rawpy.imread or postprocess
\* fails, process_raw returns no tensor, extract_thumb is not attempted and the
\* node spawns no subprocess; when the decode succeeds, process_raw returns
\* both tensors together.
C10_DecodeAllOrNothing ==
    /\ DecodeFailed =>
           /\ pr_result = None /\ output = None
           /\ thumb_array = None /\ thumbnail_tensor = None
           /\ calls["extract_thumb"] = 0
           /\ calls["probe"] = 0 /\ calls["extract"] = 0
    /\ (DecodeSucceeded /\ ProcessRawOver) =>
           /\ pr_result # None
           /\ Len(Val(pr_result)) = 2

---------------------------------------------------------------------------
(* The preview before and after the resize step.                           *)

\* the embedded preview as it enters the resize step (raw_processing.py:158)
SourcePreview == EnsureChannels(ThumbToArray(thumb))

\* n / d rounded to the nearest integer (halves upwards)
RoundDiv(n, d) == (2 * n + d) \div (2 * d)

\* the preview tensor process_raw returned
ReturnedPreview == Val(pr_result)[2]

\* C11: an embedded preview whose long edge exceeds 1024 is returned with
\* the long edge exactly 1024 and the short edge short*1024/long rounded to
\* the nearest integer; a square one is returned as 1024 x 1024.
C11_DownscaleRoundsToNearest ==
    (pr_result # None /\ NeedsResize(SourcePreview)) =>
        LET h == SourcePreview.shape[1]
            w == SourcePreview.shape[2]
        IN  ReturnedPreview.shape =
                IF w > h THEN <<1, RoundDiv(h * 1024, w), 1024, 3>>
                ELSE <<1, 1024, RoundDiv(w * 1024, h), 3>>

\* the embedded preview is a 2D single-channel array (a BITMAP thumbnail
\* without a channel axis)
TwoDimPreview ==
    /\ thumb # None
    /\ Val(thumb).format = "BITMAP"
    /\ Len(Val(thumb).data.shape) = 2

\* process_raw is past its resize step (it returned or raised there)
PastResize ==
    /\ thumb_array # None
    /\ pc \notin {"thumbnail", "resize"}

\* the (H, W) array of single samples v replicated into three channels and
\* scaled by 1/255
Replicated(data) ==
    [ shape |-> <<data.shape[1], data.shape[2], 3>>,
      px |-> <<Frac(data.px[1], 255), Frac(data.px[1], 255), Frac(data.px[1], 255)>> ]

---------------------------------------------------------------------------
(* The ExifTool functions as seen by the node that called them.            *)

\* the availability probe was run and ended with outcome o
ProbeEnded(o) == tool.probe = Some(o)

\* the exception of a subprocess call left the function that made the call
SubprocessErrorSurfaced(step) ==
    /\ tool[step] # None
    /\ exc # None
    /\ Val(exc).msg = OsErrorMessage(Val(exc).type)

\* C13: is_exiftool_available never raises; it returns True exactly when the
\* tool was launched and the version query exited with code 0, and False for
\* every failure to launch the tool and for a timeout.
C13_ProbeNeverRaises ==
    \A o \in ProbeOutcomes :
        ProbeEnded(o) =>
            /\ ~SubprocessErrorSurfaced("probe")
            /\ available # None
            /\ Val(available) = (o = "exit0")

\* C14: extract_thumbnail_exiftool returns the bytes the tool wrote to stdout,
\* unchanged, when the tool exits with code 0 (an exit with nothing written
\* is the case of C26) and None when it exits non-zero, is missing or times
\* out; whatever happens to the subprocess, no exception reaches the caller.
C14_ExtractReturnsStdoutOrNone ==
    tool.extract # None =>
        LET run == Val(tool.extract) IN
        /\ ~SubprocessErrorSurfaced("extract")
        /\ (run.status = "exit0" /\ run.stdout # EmptyBytes) =>
              thumb_bytes = Some(run.stdout)
        /\ run.status # "exit0" => thumb_bytes = None

---------------------------------------------------------------------------
(* The outputs of a node.                                                  *)

\* t has the layout (1, H, W, 3): four axes, batch 1, three channels
BatchOfRgb(t) ==
    /\ Len(t.shape) = 4
    /\ t.shape[1] = 1
    /\ t.shape[4] = 3
    /\ Len(t.px) = 3

\* every sample of t lies in the closed interval [0, 1]
InUnitRange(t) ==
    \A i \in DOMAIN t.px :
        /\ t.px[i][2] > 0
        /\ 0 <= t.px[i][1]
        /\ t.px[i][1] <= t.px[i][2]

\* C15: on success each of the three outputs of a node is a tensor of shape
\* (1, H, W, 3) whose values all lie in [0, 1], whichever path produced it.
C15_OutputsAreUnitBatchRgb ==
    output # None =>
        \A i \in 1..3 : BatchOfRgb(Val(output)[i]) /\ InUnitRange(Val(output)[i])

\* a node returned a full-scale 16-bit image, a downscaled bitmap preview
\* and the placeholder thumbnail
C15_Witness ==
    /\ output # None
    /\ Val(kw).output_16bit
    /\ Val(output)[1].px[1] = <<1, 1>>
    /\ thumb # None
    /\ Val(thumb).format = "BITMAP"
    /\ Val(output)[2].shape = <<1, 768, 1024, 3>>
    /\ Val(output)[3] = ZerosTensor

---------------------------------------------------------------------------
(* bytes_to_tensor.                                                        *)

\* bytes_to_tensor was given the stored bytes and returned
Decoded == thumb_bytes # None /\ thumbnail_tensor # None

\* the value n/d of a sample exceeds (is below) the given number of tenths
Above(sample, tenths) == 10 * sample[1] > tenths * sample[2]
Below(sample, tenths) == 10 * sample[1] < tenths * sample[2]

\* C16: bytes_to_tensor of the JPEG encoding of a W x H image returns a
\* tensor of shape (1, H, W, 3), height before width, three channels whatever
\* the colour mode, every value in [0, 1]; for a solid red image the first
\* channel is above 0.9 and the second below 0.1.
C16_BytesToTensorShapeAndRange ==
    Decoded =>
        LET data == Val(thumb_bytes)
            t == Val(thumbnail_tensor)
        IN  /\ t.shape = <<1, data.size[2], data.size[1], 3>>
            /\ Len(t.px) = 3
            /\ InUnitRange(t)
            /\ (data.mode = "RGB" /\ data.px = <<254, 0, 0>>) =>
                  Above(t.px[1], 9) /\ Below(t.px[2], 1)

\* the red image of 50 x 30 was decoded to (1, 30, 50, 3)
C16_Witness ==
    /\ Decoded
    /\ Val(thumb_bytes) = JpegBytes(<<50, 30>>, "RGB", <<254, 0, 0>>)
    /\ Val(thumbnail_tensor).shape = <<1, 30, 50, 3>>
    /\ Val(thumbnail_tensor).px[1] = <<254, 255>>

---------------------------------------------------------------------------
(* How often the library and the tool are called.                          *)

\* C17: in one invocation rawpy.imread is called exactly once, postprocess
\* once (never on a file that did not open, never again after it raised),
\* extract_thumb at most once and only after postprocess returned; the
\* availability probe and the thumbnail extraction run at most once each.
C17_EachStepAtMostOnce ==
    /\ \A c \in CALLS : calls[c] <= 1
    /\ ProcessRawOver => calls["imread"] = 1
    /\ calls["postprocess"] = (IF handle # "none" /\ pc # "postprocess" THEN 1 ELSE 0)
    /\ calls["extract_thumb"] = 1 => (calls["postprocess"] = 1 /\ rgb # None)
    /\ (rgb # None /\ ProcessRawOver) => calls["extract_thumb"] = 1

\* postprocess raised: the invocation ended after one imread and one
\* postprocess, without extract_thumb or a subprocess
C17_Witness ==
    /\ pc = "done"
    /\ handle = "closed"
    /\ rgb = None
    /\ calls = [c \in CALLS |->
                   IF c \in {"process_raw", "imread", "postprocess"} THEN 1 ELSE 0]

---------------------------------------------------------------------------
(* Independence of the invocations.                                        *)

\* raw_processing.py:127-184: what process_raw returns for the keywords k
\* when postprocess answered buf and extract_thumb left t
ProcessRawResult(k, buf, t) ==
    LET a == EnsureChannels(ThumbToArray(t))
    IN  << Unsqueeze0(AsFloatDiv(buf, Divisor(k.output_16bit))),
           Unsqueeze0(IF NeedsResize(a) THEN Resized(a) ELSE a) >>

\* nodes.py:101-111: the third output for what the two subprocess calls
\* answered
ThumbnailResult(t) ==
    IF /\ t.probe = Some("exit0")
       /\ t.extract # None
       /\ Val(t.extract).status = "exit0"
       /\ ImageOpen(Val(t.extract).stdout) # None
    THEN BytesToTensor(Val(t.extract).stdout)
    ELSE ZerosTensor

\* C18: after any earlier invocations, returned or failed, an invocation
\* forwards the arguments and returns the result that its request and the
\* answers of the library and of the tool give with the tables as the module
\* defines them; the tables are never changed.
C18_InvocationsIndependent ==
    /\ tables = MODULE_TABLES
    /\ pp_args # None => pp_args = Some(PostprocessArgs(MODULE_TABLES, Val(kw)))
    /\ pr_result # None => Val(pr_result) = ProcessRawResult(Val(kw), Val(rgb), thumb)
    /\ output # None =>
          Val(output) = <<ProcessRawResult(Val(kw), Val(rgb), thumb)[1],
                          ProcessRawResult(Val(kw), Val(rgb), thumb)[2],
                          ThumbnailResult(tool)>>

\* after an invocation that raised, a call with keys no table holds has
\* returned its two tensors
C18_Witness ==
    /\ earlier = <<"raised">>
    /\ pc = "done"
    /\ caller = "direct"
    /\ Val(kw).demosaic_key = UnknownKey
    /\ pr_result # None

---------------------------------------------------------------------------
(* The node adapters' call of process_raw.                                 *)

\* the keywords the simple node leaves to process_raw's defaults
SimpleDefaulted ==
    DOMAIN PROCESS_RAW_DEFAULTS \ {"output_16bit", "white_balance", "highlight_mode_key"}

\* <<keyword of process_raw, input of the advanced node>> handed on as it is
ADVANCED_PASSED ==
    { <<"output_16bit", "output_16bit">>, <<"white_balance", "white_balance">>,
      <<"demosaic_key", "demosaic_algorithm">>, <<"orientation_key", "orientation">>,
      <<"use_auto_bright", "use_auto_bright">>,
      <<"bright_adjustment", "bright_adjustment">>,
      <<"highlight_mode_key", "highlight_mode">>,
      <<"colorspace_key", "output_colorspace">>, <<"exp_shift", "exp_shift">>,
      <<"exp_preserve_highlights", "exp_preserve_highlights">>,
      <<"fbdd_noise_reduction", "fbdd_noise_reduction">>,
      <<"median_filter_passes", "median_filter_passes">>,
      <<"half_size", "half_size">> }

\* C19: a node calls process_raw exactly once, with the path the host's
\* lookup returned for the file reference; the simple node passes
\* output_16bit, white_balance and highlight_mode_key and leaves every other
\* keyword at its default; the advanced node passes each input under its
\* keyword, the tuples (r, g1, b, g2), (gamma_power, gamma_slope),
\* (ca_red_scale, ca_blue_scale) and a positive noise_thr unchanged; the first
\* two outputs are the two tensors process_raw returned, in order.
C19_NodesMapInputsMechanically ==
    /\ (caller # "direct" /\ kw # None) =>
          /\ calls["process_raw"] = 1
          /\ image_path = Some(AnnotatedFilepath(inputs.image))
          /\ Val(kw).image_path = Val(image_path)
    /\ (caller = "simple" /\ kw # None) =>
          /\ Val(kw).output_16bit = inputs.output_16bit
          /\ Val(kw).white_balance = inputs.white_balance
          /\ Val(kw).highlight_mode_key = inputs.highlight_mode
          /\ \A f \in SimpleDefaulted : Val(kw)[f] = PROCESS_RAW_DEFAULTS[f]
    /\ (caller = "advanced" /\ kw # None) =>
          /\ \A m \in ADVANCED_PASSED : Val(kw)[m[1]] = inputs[m[2]]
          /\ Val(kw).custom_wb = <<inputs.custom_wb_r, inputs.custom_wb_g1,
                                   inputs.custom_wb_b, inputs.custom_wb_g2>>
          /\ Val(kw).gamma = <<inputs.gamma_power, inputs.gamma_slope>>
          /\ Val(kw).chromatic_aberration = <<inputs.ca_red_scale, inputs.ca_blue_scale>>
          /\ inputs.noise_thr > 0 => Val(kw).noise_thr = Some(inputs.noise_thr)
    /\ output # None =>
          /\ pr_result # None
          /\ Val(output)[1] = Val(pr_result)[1]
          /\ Val(output)[2] = Val(pr_result)[2]

\* the advanced node returned its outputs for inputs all different from the
\* defaults
C19_Witness ==
    /\ caller = "advanced"
    /\ output # None
    /\ inputs.ca_red_scale = 1010
    /\ Val(kw).chromatic_aberration = <<1010, 990>>
    /\ Val(kw).gamma = <<1800, 3000>>
    /\ calls["process_raw"] = 1

---------------------------------------------------------------------------
(* Termination of a node execution.                                        *)

\* in a node, the decode call (process_raw, nodes.py:80 and 334) has returned
\* or raised
DecodeCallEnded == caller # "direct" /\ ProcessRawOver

\* the execution is over: three outputs were returned or RuntimeError raised
NodeFinished ==
    /\ pc = "done"
    /\ \/ output # None /\ Len(Val(output)) = 3 /\ raised = None
       \/ output = None /\ raised # None /\ Val(raised).type = "RuntimeError"

\* C20: once the decode call of a node execution has returned or raised, the
\* execution reaches "three outputs returned" or "RuntimeError raised": the
\* probe and the extraction each end by completion, error or timeout.
C20_NodeExecutionTerminates == DecodeCallEnded ~> NodeFinished

\* the probe succeeded, the extraction ran into its timeout, and the node
\* returned its three outputs
C20_Witness ==
    /\ NodeFinished
    /\ output # None
    /\ tool.probe = Some("exit0")
    /\ tool.extract # None
    /\ Val(tool.extract).status = "TimeoutExpired"

---------------------------------------------------------------------------
(* The size of the returned preview.                                       *)

\* the longer of height and width of a tensor of shape (1, H, W, 3)
LongEdge(t) == Max(t.shape[2], t.shape[3])

---------------------------------------------------------------------------
(* The conversion of the embedded thumbnail by its format.                 *)

\* the thumbnail is JPEG data that PIL decodes
DecodableJpeg ==
    /\ thumb # None
    /\ Val(thumb).format = "JPEG"
    /\ Val(thumb).data.kind = "jpeg"

BitmapThumb == thumb # None /\ Val(thumb).format = "BITMAP"

OtherFormatThumb == thumb # None /\ Val(thumb).format \notin {"JPEG", "BITMAP"}

\* the samples px of a pixel, each over 255, as three channels (a single
\* sample is repeated)
Over255(px) ==
    [i \in 1..3 |-> Frac(px[IF Len(px) = 1 THEN 1 ELSE i], 255)]

\* arr is the (H, W, 3) array of the JPEG thumbnail: H and W of its W x H
\* image, RGB samples over 255
JpegConverted(arr) ==
    /\ arr.shape = <<Val(thumb).data.size[2], Val(thumb).data.size[1], 3>>
    /\ arr.px = Over255(Val(thumb).data.px)

\* arr has the height and width of the BITMAP array and its samples over 255
BitmapConverted(arr) ==
    /\ arr.shape[1] = Val(thumb).data.shape[1]
    /\ arr.shape[2] = Val(thumb).data.shape[2]
    /\ arr.px = Over255(Val(thumb).data.px)

\* the tensor t without its batch axis
Squeeze0(t) == [t EXCEPT !.shape = Tail(t.shape)]

---------------------------------------------------------------------------
(* The order of the thumbnail path in a node.                              *)

\* the extraction was run and left data: exit code 0 and bytes on stdout
ExtractionGaveData == thumb_bytes # None

\* C23: in both nodes the thumbnail path is ordered decode, probe,
\* extraction: the probe runs only after process_raw has returned its two
\* tensors (never after it raised, never for a direct call of process_raw);
\* the extraction is attempted only if the probe answered that the tool is
\* available, and asks for the tag ThumbnailImage; the third output is the
\* decoded thumbnail exactly when the extraction returned non-empty data,
\* and the zero tensor (1, 1, 1, 3) otherwise.
C23_ThumbnailPathOrdered ==
    /\ tool.probe # None =>
          /\ caller # "direct"
          /\ pr_result # None
          /\ calls["process_raw"] = 1
    /\ (ProcessRawOver /\ pr_result = None) =>
          tool.probe = None /\ tool.extract = None
    /\ tool.extract # None =>
          /\ tool.probe = Some("exit0")
          /\ available = Some(TRUE)
          /\ Val(tool.extract).tag = "ThumbnailImage"
    /\ available = Some(FALSE) => (tool.extract = None /\ thumb_bytes = None)
    /\ output # None =>
          /\ tool.probe # None
          /\ ExtractionGaveData =>
                /\ Val(output)[3] = BytesToTensor(Val(tool.extract).stdout)
                /\ Val(output)[3].shape =
                       <<1, Val(thumb_bytes).size[2], Val(thumb_bytes).size[1], 3>>
          /\ ~ExtractionGaveData => Val(output)[3] = ZerosTensor

\* the tool was available and wrote a 160 x 120 JPEG: the third output is
\* its tensor (1, 120, 160, 3)
C23_Witness ==
    /\ output # None
    /\ tool.probe = Some("exit0")
    /\ Val(tool.extract).status = "exit0"
    /\ Val(tool.extract).tag = "ThumbnailImage"
    /\ ExtractionGaveData
    /\ Val(output)[3].shape = <<1, 120, 160, 3>>
    /\ Val(output)[3] # ZerosTensor

---------------------------------------------------------------------------
(* The parameters process_raw hands on as they are.                        *)

\* <<keyword of process_raw, keyword of postprocess>> for the parameters no
\* option table is involved in
FORWARDED_AS_IS ==
    { <<"exp_shift", "exp_shift">>,
      <<"exp_preserve_highlights", "exp_preserve_highlights">>,
      <<"gamma", "gamma">>, <<"chromatic_aberration", "chromatic_aberration">>,
      <<"median_filter_passes", "median_filter_passes">>,
      <<"half_size", "half_size">>, <<"bright_adjustment", "bright">> }

\* C24: process_raw forwards exp_shift, exp_preserve_highlights, gamma,
\* chromatic_aberration, median_filter_passes and half_size unchanged under
\* the same keyword, bright_adjustment as bright, and a non-zero noise_thr
\* unchanged; output_bps is 16 when output_16bit and 8 otherwise, and the
\* image returned afterwards is the buffer divided by the full scale of that
\* depth (65535 or 255); no_auto_bright is the negation of use_auto_bright.
C24_PlainParametersForwarded ==
    /\ pp_args # None =>
          LET a == Val(pp_args)
              k == Val(kw)
          IN  /\ \A m \in FORWARDED_AS_IS :
                     m[2] \in DOMAIN a /\ a[m[2]] = k[m[1]]
              /\ k.noise_thr \notin {None, Some(0)} => a.noise_thr = k.noise_thr
              /\ a.output_bps = (IF k.output_16bit THEN 16 ELSE 8)
              /\ a.no_auto_bright = (k.use_auto_bright = FALSE)
    /\ pr_result # None =>
          LET full == Pow2(Val(pp_args).output_bps) - 1 IN
          /\ full \in {255, 65535}
          /\ \A i \in 1..3 :
                 Val(pr_result)[1].px[i] = Frac(Val(rgb).px[i], full)

\* a direct call with every plain parameter off its default reached
\* postprocess with those values, 8 bits per sample, auto-brightness off
C24_Witness ==
    /\ PostprocessCalled
    /\ caller = "direct"
    /\ ~Val(kw).output_16bit
    /\ ~Val(kw).use_auto_bright
    /\ Val(pp_args).no_auto_bright
    /\ Val(pp_args).output_bps = 8
    /\ Val(pp_args).bright = 1500
    /\ Val(pp_args).exp_shift = 2000
    /\ Val(pp_args).gamma = <<1800, 3000>>
    /\ Val(pp_args).chromatic_aberration = <<1010, 990>>
    /\ Val(pp_args).half_size
    /\ Val(pp_args).median_filter_passes = 2

---------------------------------------------------------------------------
(* extract_all_thumbnails.                                                 *)

\* launching exiftool failed with an error extract_thumbnail_exiftool does
\* not catch (the case of C14)
LaunchErrorEscaped ==
    /\ raised # None
    /\ Val(raised).msg = OsErrorMessage(Val(raised).type)

\* C25: extract_all_thumbnails runs the extractions in the order
\* ThumbnailImage, PreviewImage, JpgFromRaw and, whatever each of them
\* yields, attempts all three and returns a triple in that order, whose i-th
\* element is None exactly when the i-th extraction yielded no data and the
\* tensor of its data otherwise: what one tag yields never suppresses
\* another tag.  (An error of the launch that the extractor lets through is
\* left to C14.)
C25_AllTagsExtractedIndependently ==
    /\ \A i \in 1..Len(tag_runs) : tag_runs[i].tag = THUMBNAIL_TYPES[i]
    /\ (pc = "done" /\ caller = "extract_all_thumbnails" /\ ~LaunchErrorEscaped) =>
          /\ Len(tag_runs) = 3
          /\ raised = None
          /\ all_result # None
          /\ \A i \in 1..3 :
                 /\ (Val(all_result)[i] = None) <=> (tag_bytes[i] = None)
                 /\ tag_bytes[i] # None =>
                        Val(all_result)[i] = Some(BytesToTensor(Val(tag_bytes[i])))

---------------------------------------------------------------------------
(* What extract_thumbnail_exiftool hands to its caller.                    *)

\* the tool exited with code 0 and wrote nothing
ExitZeroWithoutOutput ==
    /\ tool.extract # None
    /\ Val(tool.extract).status = "exit0"
    /\ Val(tool.extract).stdout = EmptyBytes

\* C26: what extract_thumbnail_exiftool returns is None or a non-empty byte
\* string: an exit with code 0 and empty stdout is returned as None, and
\* bytes_to_tensor is never given an empty payload.
C26_ExtractResultNoneOrNonEmpty ==
    /\ thumb_bytes # None => Val(thumb_bytes) # EmptyBytes
    /\ ExitZeroWithoutOutput =>
          /\ thumb_bytes = None
          /\ thumbnail_tensor \in {None, Some(ZerosTensor)}
          /\ exc = None
    /\ pc = "decode" => (thumb_bytes # None /\ Val(thumb_bytes) # EmptyBytes)

\* the tool exited 0 without output: the node returned with the placeholder
C26_Witness ==
    /\ ExitZeroWithoutOutput
    /\ thumb_bytes = None
    /\ output # None
    /\ Val(output)[3] = ZerosTensor

---------------------------------------------------------------------------
(* The dimensions of the downscaled preview.                               *)

\* C27: every preview process_raw returns has height >= 1 and width >= 1;
\* for every embedded preview with max(h, w) > 1024, a 1 x 5000 one included,
\* the downscale target has both dimensions at least 1 and process_raw does
\* not fail in the resize step.
C27_ResizeTargetAtLeastOne ==
    /\ pr_result # None =>
          ReturnedPreview.shape[2] >= 1 /\ ReturnedPreview.shape[3] >= 1
    /\ (thumb_array # None
          /\ Max(SourcePreview.shape[1], SourcePreview.shape[2]) > 1024) =>
          LET target == NewSize(SourcePreview.shape[1], SourcePreview.shape[2])
          IN  /\ target[1] >= 1 /\ target[2] >= 1
              /\ PastResize => pr_result # None

---------------------------------------------------------------------------
(* The RAW file handle.                                                    *)

\* rawpy.imread returned: process_raw holds or held an open file
FileWasOpened == handle # "none"

\* C28: the file process_raw opened is released on every path: the rawpy
\* context is left exactly once, whether postprocess succeeds, postprocess
\* raises or extract_thumb raises, never twice and never for a file that did
\* not open; the conversion of the preview and the normalisation happen only
\* after the file was closed.
C28_HandleReleasedOnEveryPath ==
    /\ exits = (IF handle = "closed" THEN 1 ELSE 0)
    /\ (ProcessRawOver /\ FileWasOpened) => handle = "closed"
    /\ (ProcessRawOver /\ ~FileWasOpened) => (rgb = None /\ calls["postprocess"] = 0)
    /\ calls["extract_thumb"] = 1 => handle = "closed"
    /\ pc \in {"thumbnail", "resize"} => handle = "closed"
    /\ (thumb_array # None \/ pr_result # None) => handle = "closed"

\* postprocess raised and the file was closed, once
C28_Witness ==
    /\ pc = "done"
    /\ calls["postprocess"] = 1
    /\ rgb = None
    /\ raised # None
    /\ handle = "closed"
    /\ exits = 1

---------------------------------------------------------------------------
(* The test runner's handling of the server.                               *)

\* the command line asks for integration tests: no marker is selected, or
\* the marker selected is "integration"
IntegrationRequested(args) ==
    \/ \A i \in 1..Len(args) : args[i] # "-m"
    \/ \E i \in 1..(Len(args) - 1) : args[i] = "-m" /\ args[i + 1] = "integration"

\* the runner started a server
Spawned == server # "none"

\* the readiness loop gave up
StartupTimedOut == polls = STARTUP_POLLS

\* C29: the runner starts a server only when integration tests are
\* requested (not for -m unit) and nothing listens on port 8188 yet; a
\* server it started has been sent its termination when the runner ends,
\* after pytest or after 60 polls without success, and in the latter case
\* the runner's exit status is 1; a server that was already listening is
\* never stopped; the spawned server is terminated at most once, however
\* often stop_comfyui_server runs.
C29_RunnerManagesServerSafely ==
    caller = "run_tests" =>
        /\ Spawned => (IntegrationRequested(inputs.args) /\ external = "absent")
        /\ inputs.args = <<"-m", "unit">> => ~Spawned
        /\ (pc = "exited" /\ Spawned) => terminations >= 1
        /\ (pc = "exited" /\ StartupTimedOut) => exit_code = Some(1)
        /\ external # "stopped"
        /\ ~Spawned => terminations = 0
        /\ terminations <= 1

=============================================================================
